---- MODULE Spec2Model ----
(***************************************************************************)
(* Model of the CSV pipeline of tambo-playground: the upload widget        *)
(* (components/csv-upload), the single-slot CSV store and query engine     *)
(* (services/csv-data), the structure analyzer, the insight generator and  *)
(* the exploration-suggestion generator, plus the page handlers that wire  *)
(* the widget to the store; the population service (services/              *)
(* population-stats) with its caches; and three pieces of component state: *)
(* the DataTable, the persisted thread ids in localStorage, the StockCard. *)
(*                                                                         *)
(* JavaScript strings are sequences of one-character strings, so that      *)
(* toLowerCase, includes, endsWith, String(x) and localeCompare are        *)
(* computed and not assumed.  JavaScript values are records                *)
(* [t, n, s]: t is the typeof-like tag, n the number, s the characters.    *)
(***************************************************************************)
EXTENDS Integers, Sequences, FiniteSets, TLC

(* ------------------------------------------------------------------ *)
(* Bounds of the model                                                 *)
(* ------------------------------------------------------------------ *)
MaxRows == 3
MaxPending == 2
MaxUploads == 2
MaxLimit == 2
MaxCols == 4
MaxPopCalls == 2
MaxTableRows == 25
MaxToggles == 6

(* ------------------------------------------------------------------ *)
(* Strings                                                             *)
(* ------------------------------------------------------------------ *)
UpperChars == <<"A","B","C","D","E","F","G","H","I","J","K","L","M",
                "N","O","P","Q","R","S","T","U","V","W","X","Y","Z">>
LowerChars == <<"a","b","c","d","e","f","g","h","i","j","k","l","m",
                "n","o","p","q","r","s","t","u","v","w","x","y","z">>
DigitChars == <<"0","1","2","3","4","5","6","7","8","9">>

\* Primary collation order of the characters the model uses: punctuation,
\* then digits, then letters (case is removed before every comparison).
CollationOrder == <<" ", "-", ".">> \o DigitChars \o LowerChars

IndexOf(seq, c) == CHOOSE i \in 1..Len(seq) : seq[i] = c

InSeq(seq, c) == \E i \in 1..Len(seq) : seq[i] = c

ToLowerChar(c) == IF InSeq(UpperChars, c) THEN LowerChars[IndexOf(UpperChars, c)] ELSE c

\* String.prototype.toLowerCase
ToLowerCase(s) == [i \in 1..Len(s) |-> ToLowerChar(s[i])]

\* String.prototype.includes
Includes(hay, needle) ==
  \E i \in 0..(Len(hay) - Len(needle)) : SubSeq(hay, i + 1, i + Len(needle)) = needle

\* String.prototype.endsWith
EndsWith(s, suffix) ==
  /\ Len(s) >= Len(suffix)
  /\ SubSeq(s, Len(s) - Len(suffix) + 1, Len(s)) = suffix

CharRank(c) == IndexOf(CollationOrder, c)

Min2(a, b) == IF a < b THEN a ELSE b

\* String.prototype.localeCompare on case-folded strings: -1, 0 or 1.
LocaleCompare(a, b) ==
  LET n == Min2(Len(a), Len(b))
      diff == {i \in 1..n : a[i] # b[i]}
  IN IF diff = {}
       THEN (IF Len(a) < Len(b) THEN -1 ELSE IF Len(a) > Len(b) THEN 1 ELSE 0)
       ELSE LET i == CHOOSE j \in diff : \A k \in diff : j <= k
            IN IF CharRank(a[i]) < CharRank(b[i]) THEN -1 ELSE 1

RECURSIVE NatToString(_)
NatToString(n) ==
  IF n < 10 THEN <<DigitChars[n + 1]>>
  ELSE NatToString(n \div 10) \o <<DigitChars[(n % 10) + 1]>>

\* String(n) for an integer n
IntToString(n) == IF n < 0 THEN <<"-">> \o NatToString(0 - n) ELSE NatToString(n)

IsDigits(q) == q # <<>> /\ \A i \in 1..Len(q) : InSeq(DigitChars, q[i])

\* parseInt(q) for a text of decimal digits
RECURSIVE DigitsValue(_)
DigitsValue(q) ==
  IF q = <<>> THEN 0
  ELSE 10 * DigitsValue(SubSeq(q, 1, Len(q) - 1)) + (IndexOf(DigitChars, q[Len(q)]) - 1)

\* the text is a decimal integer
IsNumeral(q) == IsDigits(q) \/ (Len(q) > 1 /\ q[1] = "-" /\ IsDigits(Tail(q)))

NumeralValue(q) == IF q[1] = "-" THEN 0 - DigitsValue(Tail(q)) ELSE DigitsValue(q)

(* ------------------------------------------------------------------ *)
(* JavaScript values held in cells                                     *)
(* ------------------------------------------------------------------ *)
Num(k) == [t |-> "number", n |-> k, s |-> <<>>]
Str(chars) == [t |-> "string", n |-> 0, s |-> chars]
Null == [t |-> "null", n |-> 0, s |-> <<>>]
Undefined == [t |-> "undefined", n |-> 0, s |-> <<>>]

\* typeof v === "number" / "string"
IsNumber(v) == v.t = "number"
IsString(v) == v.t = "string"

\* String(v)
ToStringJS(v) ==
  CASE v.t = "number" -> IntToString(v.n)
    [] v.t = "string" -> v.s
    [] v.t = "null" -> <<"n","u","l","l">>
    [] OTHER -> <<"u","n","d","e","f","i","n","e","d">>

\* v is falsy: null, undefined, 0 and "" are
Falsy(v) ==
  \/ v.t = "null"
  \/ v.t = "undefined"
  \/ (v.t = "number" /\ v.n = 0)
  \/ (v.t = "string" /\ v.s = <<>>)

\* row[h]: a key the row does not have reads as undefined
Cell(row, h) == IF h \in DOMAIN row THEN row[h] ELSE Undefined

(* ------------------------------------------------------------------ *)
(* Column names, datasets and files                                    *)
(* ------------------------------------------------------------------ *)
hK == <<"k">>
hName == <<"N","a","m","e">>
hMonth == <<"M","o","n","t","h">>
hZ == <<"z","z">>
hM == <<"m">>
hN == <<"n">>

\* window.__tamboCSVData: undefined until first set, null after a clear
NoStore == [kind |-> "undefined", headers |-> <<>>, rows |-> <<>>, fileName |-> <<>>]
NullStore == [kind |-> "null", headers |-> <<>>, rows |-> <<>>, fileName |-> <<>>]
Dataset(h, r, f) == [kind |-> "data", headers |-> h, rows |-> r, fileName |-> f]

nameA == <<"a",".","c","s","v">>
nameB == <<"b",".","c","s","v">>
nameE == <<"e",".","c","s","v">>
nameZ == <<"z",".","c","s","v">>
nameG == <<"g",".","c","s","v">>
nameT == <<"a",".","t","x","t">>
nameH == <<"h",".","c","s","v">>

rowsA == << [c \in {hName, hK} |-> IF c = hName THEN Str(<<"A","l">>) ELSE Num(10)],
            [c \in {hName, hK} |-> IF c = hName THEN Str(<<"b","o">>) ELSE Num(2)] >>
rowsB == << [c \in {hMonth, hK} |-> IF c = hMonth THEN Str(<<"J","a","n">>) ELSE Null] >>

\* What Papa.parse reports for each file the user can pick: results.errors
\* (count), results.meta.fields and results.data.
File(nm, sz, e, f, d) == [name |-> nm, size |-> sz, errors |-> e, fields |-> f, data |-> d]
fileA == File(nameA, 100, 0, <<hName, hK>>, rowsA)
fileB == File(nameB, 100, 0, <<hMonth, hK>>, rowsB)
fileE == File(nameE, 100, 1, <<hName, hK>>, rowsA)
fileZ == File(nameZ, 100, 0, <<hK>>, <<>>)
fileG == File(nameG, 10 * 1024 * 1024 + 1, 0, <<hMonth, hK>>, rowsB)
fileT == File(nameT, 100, 0, <<hName, hK>>, rowsA)
fileH == File(nameH, 100, 0, <<>>, <<>>)
Files == {fileA, fileB, fileE, fileZ, fileG, fileT, fileH}

NoName == <<>>

(* ------------------------------------------------------------------ *)
(* State                                                               *)
(* ------------------------------------------------------------------ *)
VARIABLES
  store,         \* window.__tamboCSVData
  uploadedFile,  \* CSVUpload: name of the file shown as uploaded, or NoName
  error,         \* CSVUpload: the error message shown, or "none"
  isProcessing,  \* CSVUpload: a parse was started and no callback came since
  pending,       \* Papa.parse calls whose callback has not run yet
  started,       \* number of parses started so far
  csvUploaded,   \* page: the "Uploaded" badge
  log,           \* history: the parses that delivered a dataset to the store
  lastSet,       \* history: the latest setCSVData or clearCSVData call
  last,          \* the latest tool call: its arguments, the store it read, its outcome
  popCache,      \* population-stats: globalCache and countryCache
  popInFlight,   \* population-stats: calls that await their two fetches, per function
  popStarted,    \* number of population calls made so far
  popLast,       \* the latest population call that returned, and what it returned
  dataTable,     \* DataTable: its props and its useState values
  localStorage,  \* window.localStorage: the item of each key, or NoItem
  stockCard      \* StockCard: its riskFilter state and the events it dispatched

vars == <<store, uploadedFile, error, isProcessing, pending, started, csvUploaded,
          log, lastSet, last, popCache, popInFlight, popStarted, popLast,
          dataTable, localStorage, stockCard>>

uploadVars == <<uploadedFile, error, isProcessing, pending, started, csvUploaded, log>>

popVars == <<popCache, popInFlight, popStarted, popLast>>

uiVars == <<dataTable, localStorage, stockCard>>

csvVars == <<store, uploadedFile, error, isProcessing, pending, started, csvUploaded,
             log, lastSet, last>>

(* ------------------------------------------------------------------ *)
(* services/csv-data: the store                                        *)
(* ------------------------------------------------------------------ *)
\* typeof window !== "undefined": every caller is a browser event handler
\* or a client-side tool
HasWindow == TRUE

\* a setCSVData that keeps a dataset that is already loaded
SetCSVData_KeepsLoaded(cur, data) == IF cur.kind = "data" THEN cur ELSE data

\* setCSVData(data): the value window.__tamboCSVData holds afterwards
SetCSVData(cur, data) == IF HasWindow THEN data ELSE cur

\* clearCSVData()
ClearCSVData(cur) == IF HasWindow THEN NullStore ELSE cur

\* a getCSVData that hands out an empty-looking table instead of null
GetCSVData_NeverNull(cur) ==
  IF cur.kind = "data" THEN cur ELSE Dataset(<<hK>>, <<[c \in {hK} |-> Null]>>, NoName)

\* getCSVData(): window.__tamboCSVData || null
GetCSVData(cur) == IF HasWindow /\ cur.kind = "data" THEN cur ELSE NullStore

(* ------------------------------------------------------------------ *)
(* services/csv-data: analyzeCSV                                       *)
(* ------------------------------------------------------------------ *)
Params(sb, so, lim, fc, fv, at, col) ==
  [sortBy |-> sb, sortOrder |-> so, limit |-> lim, filterColumn |-> fc,
   filterValue |-> fv, analysisType |-> at, column |-> col]

NoParams == Params(NoName, "asc", 0, NoName, <<>>, "none", NoName)

\* the predicate of rows.filter(...)
FilterPass(row, p) ==
  LET value == Cell(row, p.filterColumn)
  IN IF IsString(value)
       THEN Includes(ToLowerCase(value.s), ToLowerCase(p.filterValue))
       ELSE ToStringJS(value) = p.filterValue

\* indices (into data.rows) of the rows kept by the filter step, in order
FilterRows(rows, p) ==
  IF p.filterColumn # NoName /\ p.filterValue # <<>>
    THEN SelectSeq([i \in 1..Len(rows) |-> i], LAMBDA i : FilterPass(rows[i], p))
    ELSE [i \in 1..Len(rows) |-> i]

\* String(v || "").toLowerCase()
SortKey(v) == ToLowerCase(IF Falsy(v) THEN <<>> ELSE ToStringJS(v))

\* the comparator handed to Array.prototype.sort
Compare(a, b, p) ==
  LET aVal == Cell(a, p.sortBy)
      bVal == Cell(b, p.sortBy)
  IN IF IsNumber(aVal) /\ IsNumber(bVal)
       THEN (IF p.sortOrder = "desc" THEN bVal.n - aVal.n ELSE aVal.n - bVal.n)
       ELSE IF p.sortOrder = "desc"
              THEN LocaleCompare(SortKey(bVal), SortKey(aVal))
              ELSE LocaleCompare(SortKey(aVal), SortKey(bVal))

\* the comparator as a table over the indices of rows
CompareTable(rows, p) ==
  [a \in 1..Len(rows), b \in 1..Len(rows) |-> Compare(rows[a], rows[b], p)]

\* ECMAScript's "consistent comparison function" for the elements S
Consistent(S, cmp) ==
  /\ \A a \in S : cmp[a, a] = 0
  /\ \A a, b \in S :
       /\ (cmp[a, b] = 0) = (cmp[b, a] = 0)
       /\ (cmp[a, b] < 0) = (cmp[b, a] > 0)
  /\ \A a, b, c \in S :
       /\ (cmp[a, b] = 0 /\ cmp[b, c] = 0) => cmp[a, c] = 0
       /\ (cmp[a, b] < 0 /\ cmp[b, c] < 0) => cmp[a, c] < 0
       /\ (cmp[a, b] > 0 /\ cmp[b, c] > 0) => cmp[a, c] > 0

Range(seq) == {seq[i] : i \in 1..Len(seq)}

\* x goes behind every element that does not compare greater than it
InsertStable(sorted, x, cmp) ==
  LET after == {i \in 1..Len(sorted) : cmp[x, sorted[i]] < 0}
      pos == IF after = {} THEN Len(sorted) + 1
             ELSE CHOOSE i \in after : \A j \in after : i <= j
  IN SubSeq(sorted, 1, pos - 1) \o <<x>> \o SubSeq(sorted, pos, Len(sorted))

RECURSIVE StableSort(_, _)
StableSort(idx, cmp) ==
  IF idx = <<>> THEN <<>>
  ELSE InsertStable(StableSort(SubSeq(idx, 1, Len(idx) - 1), cmp), idx[Len(idx)], cmp)

AllOrders(idx) ==
  {s \in [1..Len(idx) -> Range(idx)] : \A i, j \in 1..Len(idx) : i # j => s[i] # s[j]}

\* Array.prototype.sort(comparator): the stable order when the comparator is
\* consistent on the elements; otherwise the order is implementation-defined
\* (ECMA-262, Array.prototype.sort) and every order is a possible outcome.
SortOutcomes(idx, cmp) ==
  IF Consistent(Range(idx), cmp) THEN {StableSort(idx, cmp)} ELSE AllOrders(idx)

\* the sort step: skipped unless sortBy is given and is one of the headers
SortStep(idx, headers, rows, p) ==
  IF p.sortBy # NoName /\ InSeq(headers, p.sortBy)
    THEN SortOutcomes(idx, CompareTable(rows, p))
    ELSE {idx}

\* a limit step that keeps one row too many
LimitStep_OneTooMany(idx, p) ==
  IF p.limit # 0 /\ p.limit > 0 THEN SubSeq(idx, 1, Min2(p.limit + 1, Len(idx))) ELSE idx

\* the limit step: rows.slice(0, limit) when limit is given and positive
LimitStep(idx, p) ==
  IF p.limit # 0 /\ p.limit > 0 THEN SubSeq(idx, 1, Min2(p.limit, Len(idx))) ELSE idx

RECURSIVE SeqSum(_)
SeqSum(q) == IF q = <<>> THEN 0 ELSE q[1] + SeqSum(Tail(q))

RECURSIVE Pow10(_)
Pow10(d) == IF d = 0 THEN 1 ELSE 10 * Pow10(d - 1)

RECURSIVE PadLeft(_, _)
PadLeft(str, width) == IF Len(str) >= width THEN str ELSE PadLeft(<<"0">> \o str, width)

\* (num / den).toFixed(d) for integers num and den > 0: the nearest multiple of
\* 10^-d, ties upwards in magnitude.  num / den is an exact tie only when den
\* has a factor 8, which no column of the model's length has.
ToFixed(num, den, d) ==
  LET a == IF num < 0 THEN 0 - num ELSE num
      q == (2 * a * Pow10(d) + den) \div (2 * den)
      whole == NatToString(q \div Pow10(d))
      frac == IF d = 0 THEN <<>> ELSE <<".">> \o PadLeft(NatToString(q % Pow10(d)), d)
  IN (IF num < 0 THEN <<"-">> ELSE <<>>) \o whole \o frac

\* headers.filter(h => typeof rows[0]?.[h] === "number")
NumericColumns(headers, rows) ==
  SelectSeq(headers, LAMBDA h : Len(rows) > 0 /\ IsNumber(Cell(rows[1], h)))

\* headers.filter(h => typeof rows[0]?.[h] === "string")
TextColumns(headers, rows) ==
  SelectSeq(headers, LAMBDA h : Len(rows) > 0 /\ IsString(Cell(rows[1], h)))

\* rows.map(r => r[col]).filter(v => typeof v === "number"), as integers
NumericValues(rows, col) ==
  LET cells == [i \in 1..Len(rows) |-> Cell(rows[i], col)]
      nums == SelectSeq(cells, IsNumber)
  IN [i \in 1..Len(nums) |-> nums[i].n]

TotalRowsLabel == <<"T","o","t","a","l"," ","R","o","w","s">>
AvgPrefix == <<"A","v","g"," ">>

\* the "Avg <col>" entries: first three numeric columns, over all stored rows
AvgEntries(headers, rows) ==
  LET cols == SubSeq(NumericColumns(headers, rows), 1,
                     Min2(3, Len(NumericColumns(headers, rows))))
      withValues == SelectSeq(cols, LAMBDA c : Len(NumericValues(rows, c)) > 0)
  IN [i \in 1..Len(withValues) |->
        [label |-> AvgPrefix \o withValues[i],
         value |-> ToFixed(SeqSum(NumericValues(rows, withValues[i])),
                           Len(NumericValues(rows, withValues[i])), 2)]]

\* row[h] != null ? String(row[h]) : ""
CellText(v) == IF v.t = "null" \/ v.t = "undefined" THEN <<>> ELSE ToStringJS(v)

\* a conversion that emits the cells in reverse header order
RowArrays_Reversed(idx, headers, rows) ==
  [i \in 1..Len(idx) |->
     [j \in 1..Len(headers) |->
        CellText(Cell(rows[idx[i]], headers[Len(headers) + 1 - j]))]]

\* rows.map(row => headers.map(h => ...))
RowArrays(idx, headers, rows) ==
  [i \in 1..Len(idx) |-> [j \in 1..Len(headers) |-> CellText(Cell(rows[idx[i]], headers[j]))]]

(* ------------------------------------------------------------------ *)
(* Tool calls: what the latest call read, got and returned             *)
(* ------------------------------------------------------------------ *)
NoCall ==
  [op |-> "none", status |-> "none", msg |-> "none", data |-> NullStore,
   params |-> NoParams, headers |-> <<>>, rows |-> <<>>, totalRows |-> 0,
   summary |-> <<>>, filtered |-> <<>>, sorted |-> <<>>,
   dataType |-> "none", component |-> "none", confidence |-> 0,
   title |-> "none", column |-> NoName, suggestions |-> <<>>, hist |-> "none",
   metrics |-> <<>>, topPerformers |-> <<>>, recommendations |-> <<>>]

\* the promise rejects: throw new Error(m)
Rejected(o, p, d, m) ==
  [NoCall EXCEPT !.op = o, !.status = "error", !.msg = m, !.data = d, !.params = p]

\* history: the outcome o, tagged with the kind of the latest store call
Called(o) == [o EXCEPT !.hist = lastSet.kind]

\* an analyzeCSV that counts the rows after the limit step
AnalyzeCSVResult_CountAfterLimit(d, p, srt) ==
  [NoCall EXCEPT
     !.op = "analyzeCSV", !.status = "ok", !.data = d, !.params = p,
     !.headers = d.headers,
     !.rows = RowArrays(LimitStep(srt, p), d.headers, d.rows),
     !.totalRows = Len(LimitStep(srt, p)),
     !.summary = <<[label |-> TotalRowsLabel, value |-> IntToString(Len(LimitStep(srt, p)))]>>
                   \o AvgEntries(d.headers, d.rows),
     !.filtered = FilterRows(d.rows, p),
     !.sorted = srt]

\* an analyzeCSV that averages over the rows left by the filter
AnalyzeCSVResult_AvgOverShown(d, p, srt) ==
  [NoCall EXCEPT
     !.op = "analyzeCSV", !.status = "ok", !.data = d, !.params = p,
     !.headers = d.headers,
     !.rows = RowArrays(LimitStep(srt, p), d.headers, d.rows),
     !.totalRows = Len(srt),
     !.summary = <<[label |-> TotalRowsLabel, value |-> IntToString(Len(srt))]>>
                   \o AvgEntries(d.headers, [i \in 1..Len(srt) |-> d.rows[srt[i]]]),
     !.filtered = FilterRows(d.rows, p),
     !.sorted = srt]

\* the value analyzeCSV resolves with, for the order srt the sort step produced
AnalyzeCSVResult(d, p, srt) ==
  [NoCall EXCEPT
     !.op = "analyzeCSV", !.status = "ok", !.data = d, !.params = p,
     !.headers = d.headers,
     !.rows = RowArrays(LimitStep(srt, p), d.headers, d.rows),
     !.totalRows = Len(srt),
     !.summary = <<[label |-> TotalRowsLabel, value |-> IntToString(Len(srt))]>>
                   \o AvgEntries(d.headers, d.rows),
     !.filtered = FilterRows(d.rows, p),
     !.sorted = srt]

\* analyzeCSV(params): every outcome the call can have on the store cur
AnalyzeCSVOutcomes(cur, p) ==
  LET d == GetCSVData(cur)
  IN IF d.kind # "data"
       THEN {Rejected("analyzeCSV", p, d,
                      "No CSV data uploaded. Please upload a CSV file first.")}
     ELSE IF Len(d.headers) = 0 \/ Len(d.rows) = 0
       THEN {Rejected("analyzeCSV", p, d, "CSV data is incomplete or empty.")}
     ELSE {AnalyzeCSVResult(d, p, srt) :
             srt \in SortStep(FilterRows(d.rows, p), d.headers, d.rows, p)}

AnalyzeCSV(p) ==
  /\ last' \in {Called(o) : o \in AnalyzeCSVOutcomes(store, p)}
  /\ UNCHANGED <<store, lastSet, uploadVars, popVars, uiVars>>

(* ------------------------------------------------------------------ *)
(* services/data-structure-analyzer                                    *)
(* ------------------------------------------------------------------ *)
\* headers.some(h => h.toLowerCase().includes("date") || ... "year")
HasDateColumn(headers) ==
  \E i \in 1..Len(headers) :
    \/ Includes(ToLowerCase(headers[i]), <<"d","a","t","e">>)
    \/ Includes(ToLowerCase(headers[i]), <<"t","i","m","e">>)
    \/ Includes(ToLowerCase(headers[i]), <<"m","o","n","t","h">>)
    \/ Includes(ToLowerCase(headers[i]), <<"y","e","a","r">>)

Shape(dt, comp, conf) == [dataType |-> dt, component |-> comp, confidence |-> conf]

\* a cascade that calls a column numeric when any row holds a number in it
Classify_AnyRow(headers, rows) ==
  LET numeric == Cardinality({i \in 1..Len(headers) :
                    \E r \in 1..Len(rows) : IsNumber(Cell(rows[r], headers[i]))})
      text == Len(TextColumns(headers, rows))
  IN IF HasDateColumn(headers) THEN Shape("timeseries", "Graph", 95)
     ELSE IF numeric >= 2 /\ text = 1 THEN Shape("ranking", "InsightCard", 90)
     ELSE IF text >= 2 /\ numeric >= 1 THEN Shape("comparison", "InfoCard", 85)
     ELSE IF numeric >= 3 /\ text <= 1 THEN Shape("categorical", "Graph", 75)
     ELSE Shape("unknown", "DataTable", 60)

\* a cascade that tries the ranking rule before the date rule
Classify_RankingFirst(headers, rows) ==
  LET numeric == Len(NumericColumns(headers, rows))
      text == Len(TextColumns(headers, rows))
  IN IF numeric >= 2 /\ text = 1 THEN Shape("ranking", "InsightCard", 90)
     ELSE IF HasDateColumn(headers) THEN Shape("timeseries", "Graph", 95)
     ELSE IF text >= 2 /\ numeric >= 1 THEN Shape("comparison", "InfoCard", 85)
     ELSE IF numeric >= 3 /\ text <= 1 THEN Shape("categorical", "Graph", 75)
     ELSE Shape("unknown", "DataTable", 60)

\* the rule cascade; confidence in hundredths (0.95 is 95)
Classify(headers, rows) ==
  LET numeric == Len(NumericColumns(headers, rows))
      text == Len(TextColumns(headers, rows))
  IN IF HasDateColumn(headers) THEN Shape("timeseries", "Graph", 95)
     ELSE IF numeric >= 2 /\ text = 1 THEN Shape("ranking", "InsightCard", 90)
     ELSE IF text >= 2 /\ numeric >= 1 THEN Shape("comparison", "InfoCard", 85)
     ELSE IF numeric >= 3 /\ text <= 1 THEN Shape("categorical", "Graph", 75)
     ELSE Shape("unknown", "DataTable", 60)

\* an analyzer that classifies a dataset without rows instead of rejecting it
AnalyzeDataStructureOutcome_NoRowCheck(cur) ==
  LET d == GetCSVData(cur)
  IN IF d.kind # "data"
       THEN Rejected("analyzeDataStructure", NoParams, d,
                     "No CSV data uploaded. Please upload a CSV file first.")
     ELSE IF Len(d.headers) = 0
       THEN Rejected("analyzeDataStructure", NoParams, d,
                     "CSV file has no headers. Please upload valid data.")
     ELSE [NoCall EXCEPT
             !.op = "analyzeDataStructure", !.status = "ok", !.data = d,
             !.dataType = Classify(d.headers, d.rows).dataType,
             !.component = Classify(d.headers, d.rows).component,
             !.confidence = Classify(d.headers, d.rows).confidence]

AnalyzeDataStructureOutcome(cur) ==
  LET d == GetCSVData(cur)
  IN IF d.kind # "data"
       THEN Rejected("analyzeDataStructure", NoParams, d,
                     "No CSV data uploaded. Please upload a CSV file first.")
     ELSE IF Len(d.headers) = 0
       THEN Rejected("analyzeDataStructure", NoParams, d,
                     "CSV file has no headers. Please upload valid data.")
     ELSE IF Len(d.rows) = 0
       THEN Rejected("analyzeDataStructure", NoParams, d,
                     "CSV file is empty. Please upload data.")
     ELSE [NoCall EXCEPT
             !.op = "analyzeDataStructure", !.status = "ok", !.data = d,
             !.dataType = Classify(d.headers, d.rows).dataType,
             !.component = Classify(d.headers, d.rows).component,
             !.confidence = Classify(d.headers, d.rows).confidence]

AnalyzeDataStructure ==
  /\ last' = Called(AnalyzeDataStructureOutcome(store))
  /\ UNCHANGED <<store, lastSet, uploadVars, popVars, uiVars>>

(* ------------------------------------------------------------------ *)
(* services/data-insights                                              *)
(* ------------------------------------------------------------------ *)
\* texts are sequences of pieces: the characters of a column name or of a
\* number, and fixed pieces of a template
Metric(l, v, t) == [label |-> l, value |-> v, type |-> t]

MinOf(q) == CHOOSE x \in Range(q) : \A y \in Range(q) : x <= y
MaxOf(q) == CHOOSE x \in Range(q) : \A y \in Range(q) : x >= y

\* numericColumns.slice(0, n)
FirstN(q, n) == SubSeq(q, 1, Min2(n, Len(q)))

\* the two metrics generateSummary pushes for the column col
SummaryMetrics(rows, col) ==
  LET values == NumericValues(rows, col)
  IN IF Len(values) > 0
       THEN << Metric(col \o <<" Range">>,
                      IntToString(MinOf(values)) \o <<" - ">> \o IntToString(MaxOf(values)),
                      "neutral"),
               Metric(col \o <<" Average">>, ToFixed(SeqSum(values), Len(values), 2),
                      "positive") >>
       ELSE <<>>

RECURSIVE Flatten(_)
Flatten(q) == IF q = <<>> THEN <<>> ELSE q[1] \o Flatten(Tail(q))

SummaryRecommendations ==
  << <<"Explore top performers by clicking on a specific metric">>,
     <<"Use search to filter data by product name or region">>,
     <<"Sort columns to find trends in your data">> >>

\* generateSummary(headers, rows, numericColumns)
GenerateSummary(d, p, numericColumns) ==
  [NoCall EXCEPT
     !.op = "generateDataInsights", !.status = "ok", !.data = d, !.params = p,
     !.title = "Data Summary",
     !.metrics = << Metric(<<"Total Records">>, IntToString(Len(d.rows)), "neutral"),
                    Metric(<<"Data Columns">>, IntToString(Len(d.headers)), "neutral") >>
                 \o Flatten([i \in 1..Len(FirstN(numericColumns, 3)) |->
                               SummaryMetrics(d.rows, numericColumns[i])]),
     !.recommendations = SummaryRecommendations]

\* a default that takes the first column when no column is numeric
TargetColumn_FirstHeader(p, headers, numericColumns) ==
  IF p.column # NoName THEN p.column
  ELSE IF Len(numericColumns) > 0 THEN numericColumns[1]
  ELSE IF Len(headers) > 0 THEN headers[1]
  ELSE NoName

\* params.column || numericColumns[0]: NoName stands for undefined
TargetColumn(p, headers, numericColumns) ==
  IF p.column # NoName THEN p.column
  ELSE IF Len(numericColumns) > 0 THEN numericColumns[1]
  ELSE NoName

\* params.limit || 5: a limit of 0 stands for no limit given
TopLimit(p) == IF p.limit # 0 THEN p.limit ELSE 5

LabelNames == {<<"n","a","m","e">>, <<"p","r","o","d","u","c","t">>,
               <<"t","i","t","l","e">>, <<"l","a","b","e","l">>}

\* headers.find(name-like) || headers.find(first-row string) || headers[0]
LabelColumn(headers, rows) ==
  LET named == SelectSeq(headers, LAMBDA h : ToLowerCase(h) \in LabelNames)
      text == SelectSeq(headers, LAMBDA h : IsString(Cell(rows[1], h)))
  IN IF named # <<>> THEN named[1]
     ELSE IF text # <<>> THEN text[1]
     ELSE headers[1]

\* the comparator of generateTopPerformers: b - a for two numbers, else 0
TopCompare(a, b, column) ==
  LET aVal == Cell(a, column)
      bVal == Cell(b, column)
  IN IF IsNumber(aVal) /\ IsNumber(bVal) THEN bVal.n - aVal.n ELSE 0

TopCompareTable(rows, column) ==
  [a \in 1..Len(rows), b \in 1..Len(rows) |-> TopCompare(rows[a], rows[b], column)]

\* one entry of topPerformers: the row at position idx (from 1) of sorted
TopPerformer(row, idx, column, labelColumn) ==
  [rank |-> idx,
   name |-> IF Falsy(Cell(row, labelColumn))
              THEN <<"Item ">> \o IntToString(idx)
              ELSE ToStringJS(Cell(row, labelColumn)),
   value |-> IF Cell(row, column).t \in {"null", "undefined"}
               THEN <<"N/A">>
               ELSE ToStringJS(Cell(row, column)),
   details |-> column \o <<": ">> \o ToStringJS(Cell(row, column))]

\* sorted.slice(0, limit)
TopSlice(order, limit) ==
  IF limit >= 0 THEN SubSeq(order, 1, Min2(limit, Len(order)))
  ELSE SubSeq(order, 1, Len(order) + limit)

\* the value generateTopPerformers returns when the sort leaves the rows in
\* the order `order`; its two recommendation texts are left out
TopPerformersResult(d, p, column, limit, order) ==
  LET sorted == TopSlice(order, limit)
      labelColumn == LabelColumn(d.headers, d.rows)
      entries == [i \in 1..Len(sorted) |->
                    TopPerformer(d.rows[sorted[i]], i, column, labelColumn)]
  IN [NoCall EXCEPT
        !.op = "generateDataInsights", !.status = "ok", !.data = d, !.params = p,
        !.title = "Top N by column", !.column = column,
        !.sorted = order,
        !.metrics = << Metric(<<"Top Value">>,
                              IF entries = <<>> THEN <<"N/A">> ELSE entries[1].value,
                              "positive"),
                       Metric(<<"Items Analyzed">>, IntToString(Len(d.rows)), "neutral") >>,
        !.topPerformers = entries]

\* generateTopPerformers: throws unless headers.includes(column)
GenerateTopPerformers(d, p, column, limit) ==
  IF ~InSeq(d.headers, column)
    THEN {Rejected("generateDataInsights", p, d, "Column not found")}
    ELSE {TopPerformersResult(d, p, column, limit, order) :
            order \in SortOutcomes([i \in 1..Len(d.rows) |-> i],
                                   TopCompareTable(d.rows, column))}

\* ((last - first) / first) * 100 as a JavaScript number, for first = from and
\* last = to: a fraction num / den with den > 0 when from is not 0, else
\* Infinity, -Infinity or NaN
Change(from, to) ==
  IF from > 0 THEN [kind |-> "finite", num |-> (to - from) * 100, den |-> from]
  ELSE IF from < 0
    THEN [kind |-> "finite", num |-> (from - to) * 100, den |-> 0 - from]
  ELSE IF to > 0 THEN [kind |-> "Infinity", num |-> 1, den |-> 1]
  ELSE IF to < 0 THEN [kind |-> "-Infinity", num |-> 0 - 1, den |-> 1]
  ELSE [kind |-> "NaN", num |-> 0, den |-> 1]

\* change > 0 and change < 0; both are false for NaN
ChangePositive(c) == c.kind # "NaN" /\ c.num > 0
ChangeNegative(c) == c.kind # "NaN" /\ c.num < 0

\* change.toFixed(1)
ChangeText(c) == IF c.kind = "finite" THEN ToFixed(c.num, c.den, 1) ELSE <<c.kind>>

\* the metric generateTrends pushes for the column col, if any
TrendMetrics(rows, col) ==
  LET values == NumericValues(rows, col)
      change == Change(values[1], values[Len(values)])
  IN IF Len(values) >= 2
       THEN << Metric(col \o <<" Trend">>,
                      (IF ChangePositive(change) THEN <<"+">> ELSE <<>>)
                        \o ChangeText(change) \o <<"%">>,
                      IF ChangePositive(change) THEN "positive"
                      ELSE IF ChangeNegative(change) THEN "warning"
                      ELSE "neutral") >>
       ELSE <<>>

TrendRecommendations ==
  << <<"Monitor positive trends for growth opportunities">>,
     <<"Investigate negative trends to identify issues">>,
     <<"Compare trends across different time periods">> >>

\* generateTrends(headers, rows, numericColumns)
GenerateTrends(d, p, numericColumns) ==
  LET metrics == Flatten([i \in 1..Len(numericColumns) |->
                            TrendMetrics(d.rows, numericColumns[i])])
  IN [NoCall EXCEPT
        !.op = "generateDataInsights", !.status = "ok", !.data = d, !.params = p,
        !.title = "Data Trends",
        !.metrics = IF Len(metrics) > 0 THEN metrics
                    ELSE <<Metric(<<"Status">>, <<"No trends detected">>, "neutral")>>,
        !.recommendations = TrendRecommendations]

\* the concentration check on the first text column (the pictograph that
\* starts each text is left out)
ConcentrationNotes(headers, rows) ==
  LET stringColumns == TextColumns(headers, rows)
      col == stringColumns[1]
      size == Cardinality({Cell(rows[i], col) : i \in 1..Len(rows)})
  IN IF Len(stringColumns) = 0 THEN <<>>
     ELSE IF size * 100 < 30 * Len(rows)
       THEN << <<"High concentration: ">> \o IntToString(size) \o <<" unique ">> \o col
               \o <<"s for ">> \o IntToString(Len(rows))
               \o <<" records. Consider diversification.">> >>
     ELSE IF size * 100 > 70 * Len(rows)
       THEN << <<"Good diversity: ">> \o IntToString(size) \o <<" unique ">> \o col
               \o <<"s across ">> \o IntToString(Len(rows)) \o <<" records">> >>
     ELSE <<>>

\* the outlier checks on the column col: max > avg * 1.5 and min < avg * 0.5,
\* with avg = sum / n written without the division
OutlierNotes(rows, col) ==
  LET values == NumericValues(rows, col)
      n == Len(values)
      sum == SeqSum(values)
  IN IF n = 0 THEN <<>>
     ELSE (IF 2 * n * MaxOf(values) > 3 * sum
             THEN << col \o <<" has high outliers (max: ">> \o IntToString(MaxOf(values))
                     \o <<" vs avg: ">> \o ToFixed(sum, n, 0)
                     \o <<"). These may be opportunities.">> >>
             ELSE <<>>)
          \o (IF 2 * n * MinOf(values) < sum
                THEN << col \o <<" has low outliers (min: ">> \o IntToString(MinOf(values))
                        \o <<" vs avg: ">> \o ToFixed(sum, n, 0)
                        \o <<"). Consider investigation.">> >>
                ELSE <<>>)

GenericRecommendations ==
  << <<"Data looks balanced - maintain current trends">>,
     <<"Monitor for changes in key metrics">>,
     <<"Use sorting and filtering to discover insights">> >>

\* a recommendation list that always ends with the generic texts
Recommendations_AlwaysGeneric(headers, rows, numericColumns) ==
  ConcentrationNotes(headers, rows)
    \o Flatten([i \in 1..Len(FirstN(numericColumns, 2)) |->
                  OutlierNotes(rows, numericColumns[i])])
    \o GenericRecommendations

\* the recommendations list of generateRecommendations
Recommendations(headers, rows, numericColumns) ==
  LET found == ConcentrationNotes(headers, rows)
                 \o Flatten([i \in 1..Len(FirstN(numericColumns, 2)) |->
                               OutlierNotes(rows, numericColumns[i])])
  IN IF Len(found) = 0 THEN GenericRecommendations ELSE found

\* generateRecommendations(headers, rows, numericColumns)
GenerateRecommendations(d, p, numericColumns) ==
  [NoCall EXCEPT
     !.op = "generateDataInsights", !.status = "ok", !.data = d, !.params = p,
     !.title = "Data Recommendations",
     !.metrics = << Metric(<<"Total Records">>, IntToString(Len(d.rows)), "neutral"),
                    Metric(<<"Data Quality">>, <<"Good">>, "positive") >>,
     !.recommendations = Recommendations(d.headers, d.rows, numericColumns)]

\* a switch whose default rejects the request
GenerateDataInsightsOutcomes_StrictType(cur, p) ==
  LET d == GetCSVData(cur)
      numericColumns == NumericColumns(d.headers, d.rows)
  IN IF d.kind # "data"
       THEN {Rejected("generateDataInsights", p, d,
                      "No CSV data uploaded. Please upload a file first.")}
     ELSE IF Len(d.headers) = 0 \/ Len(d.rows) = 0
       THEN {Rejected("generateDataInsights", p, d, "CSV data is incomplete or empty.")}
     ELSE CASE p.analysisType = "summary" -> {GenerateSummary(d, p, numericColumns)}
            [] p.analysisType = "top_performers" ->
                 GenerateTopPerformers(d, p, TargetColumn(p, d.headers, numericColumns),
                                       TopLimit(p))
            [] p.analysisType = "trends" -> {GenerateTrends(d, p, numericColumns)}
            [] p.analysisType = "recommendations" ->
                 {GenerateRecommendations(d, p, numericColumns)}
            [] OTHER -> {Rejected("generateDataInsights", p, d, "Unknown analysis type")}

\* generateDataInsights(params): every outcome the call can have on the store cur
GenerateDataInsightsOutcomes(cur, p) ==
  LET d == GetCSVData(cur)
      numericColumns == NumericColumns(d.headers, d.rows)
  IN IF d.kind # "data"
       THEN {Rejected("generateDataInsights", p, d,
                      "No CSV data uploaded. Please upload a file first.")}
     ELSE IF Len(d.headers) = 0 \/ Len(d.rows) = 0
       THEN {Rejected("generateDataInsights", p, d, "CSV data is incomplete or empty.")}
     ELSE CASE p.analysisType = "summary" -> {GenerateSummary(d, p, numericColumns)}
            [] p.analysisType = "top_performers" ->
                 GenerateTopPerformers(d, p, TargetColumn(p, d.headers, numericColumns),
                                       TopLimit(p))
            [] p.analysisType = "trends" -> {GenerateTrends(d, p, numericColumns)}
            [] p.analysisType = "recommendations" ->
                 {GenerateRecommendations(d, p, numericColumns)}
            [] OTHER -> {GenerateSummary(d, p, numericColumns)}

GenerateDataInsights(p) ==
  /\ last' \in {Called(o) : o \in GenerateDataInsightsOutcomes(store, p)}
  /\ UNCHANGED <<store, lastSet, uploadVars, popVars, uiVars>>

(* ------------------------------------------------------------------ *)
(* services/exploration-suggestions                                    *)
(* ------------------------------------------------------------------ *)
Suggestion(r, a, b) == [rule |-> r, a |-> a, b |-> b]

\* a generator that pushes "Best Performers" ahead of the breakdown
Suggestions_BestBeforeBreakdown(headers, rows) ==
  LET str == TextColumns(headers, rows)
      num == NumericColumns(headers, rows)
      found ==
        (IF Len(str) > 0 /\ Len(num) > 0
           THEN <<Suggestion("Compare by", str[1], num[1])>> ELSE <<>>)
        \o (IF Len(num) > 0
              THEN <<Suggestion("Identify Outliers", num[1], NoName)>> ELSE <<>>)
        \o (IF HasDateColumn(headers) /\ Len(num) > 0
              THEN <<Suggestion("Analyze Trends", num[1], NoName)>> ELSE <<>>)
        \o (IF Len(num) >= 2
              THEN <<Suggestion("Distribution Analysis", num[1], num[2])>> ELSE <<>>)
        \o (IF Len(num) >= 2
              THEN <<Suggestion("Best Performers", NoName, NoName)>> ELSE <<>>)
        \o (IF Len(str) > 1 /\ Len(num) > 0
              THEN <<Suggestion("Breakdown", str[1], str[2])>> ELSE <<>>)
  IN IF Len(found) > 0 THEN found ELSE <<Suggestion("Explore Data", NoName, NoName)>>

\* the suggestions in the order the rules push them
Suggestions(headers, rows) ==
  LET str == TextColumns(headers, rows)
      num == NumericColumns(headers, rows)
      found ==
        (IF Len(str) > 0 /\ Len(num) > 0
           THEN <<Suggestion("Compare by", str[1], num[1])>> ELSE <<>>)
        \o (IF Len(num) > 0
              THEN <<Suggestion("Identify Outliers", num[1], NoName)>> ELSE <<>>)
        \o (IF HasDateColumn(headers) /\ Len(num) > 0
              THEN <<Suggestion("Analyze Trends", num[1], NoName)>> ELSE <<>>)
        \o (IF Len(num) >= 2
              THEN <<Suggestion("Distribution Analysis", num[1], num[2])>> ELSE <<>>)
        \o (IF Len(str) > 1 /\ Len(num) > 0
              THEN <<Suggestion("Breakdown", str[1], str[2])>> ELSE <<>>)
        \o (IF Len(num) >= 2
              THEN <<Suggestion("Best Performers", NoName, NoName)>> ELSE <<>>)
  IN IF Len(found) > 0 THEN found ELSE <<Suggestion("Explore Data", NoName, NoName)>>

GenerateExplorationSuggestionsOutcome(cur) ==
  LET d == GetCSVData(cur)
  IN IF d.kind # "data"
       THEN Rejected("generateExplorationSuggestions", NoParams, d,
                     "No CSV data uploaded. Please upload a CSV file first.")
     ELSE IF Len(d.headers) = 0 \/ Len(d.rows) = 0
       THEN Rejected("generateExplorationSuggestions", NoParams, d,
                     "CSV file is empty or invalid.")
     ELSE [NoCall EXCEPT
             !.op = "generateExplorationSuggestions", !.status = "ok", !.data = d,
             !.suggestions = Suggestions(d.headers, d.rows)]

GenerateExplorationSuggestions ==
  /\ last' = Called(GenerateExplorationSuggestionsOutcome(store))
  /\ UNCHANGED <<store, lastSet, uploadVars, popVars, uiVars>>

(* ------------------------------------------------------------------ *)
(* services/population-stats                                           *)
(* ------------------------------------------------------------------ *)
PopFns == {"global", "country"}

y2023 == <<"2","0","2","3">>
y2022 == <<"2","0","2","2">>
cWLD == <<"W","L","D">>
cCHN == <<"C","H","N">>
cATA == <<"A","T","A">>

\* CONTINENT_MAP[code]; a code the map does not have reads as undefined
ContinentMap(code) == IF code = cCHN THEN "Asia" ELSE "undefined"

\* one GlobalPopulation / CountryPopulation object (countryCode is empty in
\* the global series); population and growthRate are kept in thousandths and
\* hundredths, the units the service rounds them to
PopRow(code, yr, pop, growth) ==
  [countryCode |-> code, year |-> yr, population |-> pop, growthRate |-> growth]

\* FALLBACK_GLOBAL_DATA and FALLBACK_COUNTRY_DATA, their first two entries
Fallback(fn) ==
  IF fn = "global"
    THEN <<PopRow(NoName, 2023, 8045, 88), PopRow(NoName, 2022, 7975, 83)>>
    ELSE <<PopRow(cCHN, 2023, 1425670, 0 - 2), PopRow(<<"I","N","D">>, 2023, 1428630, 81)>>

NullCache == [kind |-> "null", rows |-> <<>>]
Cached(rows) == [kind |-> "data", rows |-> rows]

\* one element of the data array of a World Bank response
WBEntry(code, date, v) == [countryiso3code |-> code, date |-> date, value |-> v]

\* what a fetch of the World Bank API ends in: a rejection (network error,
\* timeout of AbortSignal, non-OK status, a body that is no JSON), or a body
\* that is no [metadata, data] pair or has a null data ("empty"), whose data
\* is no array ("noniterable"), or whose data is an array of entries
Response(k, e) == [kind |-> k, entries |-> e]
NoResponse == Response("none", <<>>)
Rejections == {Response(k, <<>>) : k \in {"network", "timeout", "status", "badjson"}}

Entries(fn, v1, v2) ==
  IF fn = "global"
    THEN <<WBEntry(cWLD, y2023, v1), WBEntry(cWLD, y2022, v2)>>
    ELSE <<WBEntry(cCHN, y2023, v1), WBEntry(cATA, y2023, v2)>>

\* the other fetch of a Promise.all that was rejected before it settled
Pending == Response("pending", <<>>)

PopBodies(fn) ==
  {Response("empty", <<>>), Response("noniterable", <<>>)}
  \cup {Response("entries", Entries(fn, a, b)) : a \in {Num(8100), Null}, b \in {Num(8000), Null}}

GrowthBodies(fn) ==
  {Response("empty", <<>>), Response("noniterable", <<>>)}
  \cup {Response("entries", Entries(fn, a, Num(80))) : a \in {Num(90), Null, Str(<<"x">>)}}

\* the ways Promise.all of the two fetches settles: both fulfilled, or one
\* rejected while the other is pending or already fulfilled
SettledPairs(fn) ==
  {<<p, g>> : p \in PopBodies(fn), g \in GrowthBodies(fn)}
  \cup {<<r, g>> : r \in Rejections,
                   g \in {Pending, Response("entries", Entries(fn, Num(90), Num(80)))}}
  \cup {<<p, r>> : p \in {Pending, Response("entries", Entries(fn, Num(8100), Num(8000)))},
                   r \in Rejections}

\* fetchWorldBankJSON rejects
Rejects(r) == r.kind \in {"network", "timeout", "status", "badjson"}

\* the key of the growth map: parseInt(entry.date), or entry.countryiso3code
GrowthKey(fn, e) ==
  IF fn = "global" THEN <<NoName, DigitsValue(e.date)>> ELSE <<e.countryiso3code, 0>>

\* the first loop throws: for..of over a value that is no array, or
\* entry.value.toFixed on a value that is no number
GrowthLoopThrows(g) ==
  \/ g.kind = "noniterable"
  \/ \E i \in 1..Len(g.entries) :
       g.entries[i].value.t \notin {"null", "undefined", "number"}

\* growthByYear.get(year) ?? 0, growthByCode.get(code) ?? 0
GrowthOf(fn, g, e) ==
  LET hits == {i \in 1..Len(g.entries) :
                 /\ g.entries[i].value.t \notin {"null", "undefined"}
                 /\ GrowthKey(fn, g.entries[i]) = GrowthKey(fn, e)}
  IN IF hits = {} THEN 0
     ELSE g.entries[CHOOSE i \in hits : \A j \in hits : i >= j].value.n

\* the second loop: one object per entry with a value (and, for countries,
\* with a continent)
LiveRows(fn, p, g) ==
  LET kept == SelectSeq(p.entries,
                LAMBDA e : /\ e.value.t \notin {"null", "undefined"}
                           /\ (fn = "country" => ContinentMap(e.countryiso3code) # "undefined"))
  IN [i \in 1..Len(kept) |->
        PopRow(IF fn = "global" THEN NoName ELSE kept[i].countryiso3code,
               DigitsValue(kept[i].date), kept[i].value.n, GrowthOf(fn, g, kept[i]))]

\* (a, b) => b.year - a.year as a table over the positions of rows
YearDescTable(rows) == [a \in 1..Len(rows), b \in 1..Len(rows) |-> rows[b].year - rows[a].year]

\* rows.sort((a, b) => b.year - a.year): years are numbers, the comparator is
\* consistent and the sort is the stable one
SortByYearDesc(rows) ==
  LET order == StableSort([i \in 1..Len(rows) |-> i], YearDescTable(rows))
  IN [i \in 1..Len(rows) |-> rows[order[i]]]

\* the try block ends in a throw
TryThrows(fn, p, g) ==
  \/ Rejects(p) \/ Rejects(g)
  \/ GrowthLoopThrows(g)
  \/ p.kind = "noniterable"
  \/ LiveRows(fn, p, g) = <<>>

\* a fetchGlobalData / fetchCountryData without the catch block
FetchData_NoCatch(fn, p, g) ==
  IF TryThrows(fn, p, g)
    THEN [status |-> "rejected", cache |-> NullCache, data |-> <<>>]
    ELSE [status |-> "resolved",
          cache |-> Cached(IF fn = "global" THEN SortByYearDesc(LiveRows(fn, p, g))
                           ELSE LiveRows(fn, p, g)),
          data |-> IF fn = "global" THEN SortByYearDesc(LiveRows(fn, p, g))
                   ELSE LiveRows(fn, p, g)]

\* fetchGlobalData / fetchCountryData from the point where Promise.all has
\* settled with the responses p and g: the new cache and the value returned
FetchData(fn, p, g) ==
  IF TryThrows(fn, p, g)
    THEN [status |-> "resolved", cache |-> Cached(Fallback(fn)), data |-> Fallback(fn)]
    ELSE [status |-> "resolved",
          cache |-> Cached(IF fn = "global" THEN SortByYearDesc(LiveRows(fn, p, g))
                           ELSE LiveRows(fn, p, g)),
          data |-> IF fn = "global" THEN SortByYearDesc(LiveRows(fn, p, g))
                   ELSE LiveRows(fn, p, g)]

\* getGlobalPopulationTrend(filter) / getCountryPopulations(filter) after the
\* await; filter 0 is no filter, 1 is {startYear: 2023} / {limit: 1}
ApplyFilter(fn, filter, data) ==
  IF filter = 0 THEN (IF fn = "global" THEN SortByYearDesc(data) ELSE data)
  ELSE IF fn = "global"
    THEN SortByYearDesc(SelectSeq(data, LAMBDA d : d.year >= 2023))
    ELSE SubSeq(data, 1, Min2(1, Len(data)))

NoPopCall ==
  [fn |-> "none", status |-> "none", fetched |-> FALSE, pop |-> NoResponse,
   growth |-> NoResponse, data |-> <<>>, result |-> <<>>, filter |-> 0]

PopInit ==
  /\ popCache = [fn \in PopFns |-> NullCache]
  /\ popInFlight = [fn \in PopFns |-> 0]
  /\ popStarted = 0
  /\ popLast = NoPopCall

\* a call that finds the cache filled returns it without a fetch
PopCallCached(fn, filter) ==
  /\ popStarted < MaxPopCalls
  /\ popCache[fn].kind # "null"
  /\ popStarted' = popStarted + 1
  /\ popLast' = [fn |-> fn, status |-> "resolved", fetched |-> FALSE, pop |-> NoResponse,
                 growth |-> NoResponse, data |-> popCache[fn].rows,
                 result |-> ApplyFilter(fn, filter, popCache[fn].rows), filter |-> filter]
  /\ UNCHANGED <<popCache, popInFlight, csvVars, uiVars>>

\* a call that finds the cache empty issues its two fetches and awaits them
PopCallFetch(fn) ==
  /\ popStarted < MaxPopCalls
  /\ popCache[fn].kind = "null"
  /\ popStarted' = popStarted + 1
  /\ popInFlight' = [popInFlight EXCEPT ![fn] = @ + 1]
  /\ UNCHANGED <<popCache, popLast, csvVars, uiVars>>

\* Promise.all of one waiting call settles with the responses p and g (a
\* rejection wins over the other response), and the call runs to its return
PopSettle(fn, p, g, filter) ==
  /\ popInFlight[fn] > 0
  /\ popInFlight' = [popInFlight EXCEPT ![fn] = @ - 1]
  /\ LET r == FetchData(fn, p, g)
     IN /\ popCache' = [popCache EXCEPT ![fn] = IF r.status = "resolved" THEN r.cache ELSE @]
        /\ popLast' = [fn |-> fn, status |-> r.status, fetched |-> TRUE, pop |-> p,
                       growth |-> g, data |-> r.data,
                       result |-> IF r.status = "resolved"
                                    THEN ApplyFilter(fn, filter, r.data) ELSE <<>>,
                       filter |-> filter]
  /\ UNCHANGED <<popStarted, csvVars, uiVars>>

(* ------------------------------------------------------------------ *)
(* components/tambo/data-table                                         *)
(* ------------------------------------------------------------------ *)
rowsPerPage == 10

\* sortColumnIdx === null
NoSortColumn == 0 - 1

\* a mounted DataTable: its props and the initial values of its useState
\* hooks; event and from are history: the latest handler that ran and the
\* page it found
TableMounted(headers, rows) ==
  [headers |-> headers, rows |-> rows, sortColumnIdx |-> NoSortColumn,
   sortDirection |-> "asc", searchTerm |-> <<>>, currentPage |-> 1,
   event |-> "none", from |-> 1]

\* row[idx] ?? "" with the 0-based idx of the code
TableCell(row, idx) == IF idx + 1 \in 1..Len(row) THEN row[idx + 1] ELSE <<>>

\* row.some(cell => String(cell ?? "").toLowerCase().includes(term.toLowerCase()))
RowMatches(row, term) ==
  \E i \in 1..Len(row) : Includes(ToLowerCase(row[i]), ToLowerCase(term))

\* filteredRows
FilteredRows(t) ==
  IF t.searchTerm = <<>> \/ t.rows = <<>> THEN t.rows
  ELSE SelectSeq(t.rows, LAMBDA r : RowMatches(r, t.searchTerm))

\* the comparator of sortedRows; Number(text) is a number for the decimal
\* integers, the numeric texts the tables of the model hold
TableCompare(a, b, idx, dir) ==
  LET aVal == TableCell(a, idx)
      bVal == TableCell(b, idx)
  IN IF IsNumeral(aVal) /\ IsNumeral(bVal)
       THEN (IF dir = "asc" THEN NumeralValue(aVal) - NumeralValue(bVal)
             ELSE NumeralValue(bVal) - NumeralValue(aVal))
       ELSE IF dir = "asc"
              THEN LocaleCompare(ToLowerCase(aVal), ToLowerCase(bVal))
              ELSE LocaleCompare(ToLowerCase(bVal), ToLowerCase(aVal))

TableCompareTable(rows, idx, dir) ==
  [a \in 1..Len(rows), b \in 1..Len(rows) |-> TableCompare(rows[a], rows[b], idx, dir)]

\* sortedRows: [...filteredRows].sort(comparator); a column of the model holds
\* numbers only or words only, the comparator is consistent on it and the
\* sort is the stable one
SortedRows(t) ==
  LET f == FilteredRows(t)
  IN IF t.sortColumnIdx = NoSortColumn \/ f = <<>> THEN f
     ELSE LET order == StableSort([i \in 1..Len(f) |-> i],
                                  TableCompareTable(f, t.sortColumnIdx, t.sortDirection))
          IN [i \in 1..Len(f) |-> f[order[i]]]

\* Math.ceil(sortedRows.length / rowsPerPage)
TotalPages(t) == (Len(SortedRows(t)) + rowsPerPage - 1) \div rowsPerPage

\* q.slice(from, to) for 0 <= from <= to
Slice(q, from, to) == SubSeq(q, Min2(from, Len(q)) + 1, Min2(to, Len(q)))

PaginatedRows(t) ==
  Slice(SortedRows(t), (t.currentPage - 1) * rowsPerPage, t.currentPage * rowsPerPage)

\* the streaming guard: without headers or rows the loading view is rendered
\* and there is no search box, header or button to use
TableShown(t) == t.headers # <<>> /\ t.rows # <<>>

\* handleSort(idx), the click on the header of column idx
HandleSort(idx) ==
  /\ TableShown(dataTable)
  /\ idx \in 0..(Len(dataTable.headers) - 1)
  /\ dataTable' =
       IF dataTable.sortColumnIdx = idx
         THEN [dataTable EXCEPT
                 !.sortDirection = IF dataTable.sortDirection = "asc" THEN "desc" ELSE "asc",
                 !.event = "sort", !.from = dataTable.currentPage]
         ELSE [dataTable EXCEPT !.sortColumnIdx = idx, !.sortDirection = "asc",
                                !.event = "sort", !.from = dataTable.currentPage]
  /\ UNCHANGED <<csvVars, popVars, localStorage, stockCard>>

\* a search box that keeps the page
SearchChange_KeepsPage(term) ==
  /\ TableShown(dataTable)
  /\ term # dataTable.searchTerm
  /\ dataTable' = [dataTable EXCEPT !.searchTerm = term,
                                    !.event = "search", !.from = dataTable.currentPage]
  /\ UNCHANGED <<csvVars, popVars, localStorage, stockCard>>

\* onChange of the search box: setSearchTerm(newSearchTerm); setCurrentPage(1)
SearchChange(term) ==
  /\ TableShown(dataTable)
  /\ term # dataTable.searchTerm
  /\ dataTable' = [dataTable EXCEPT !.searchTerm = term, !.currentPage = 1,
                                    !.event = "search", !.from = dataTable.currentPage]
  /\ UNCHANGED <<csvVars, popVars, localStorage, stockCard>>

\* the Previous button: rendered when totalPages > 1, disabled on page 1
PreviousPage ==
  /\ TableShown(dataTable)
  /\ TotalPages(dataTable) > 1
  /\ dataTable.currentPage # 1
  /\ dataTable' = [dataTable EXCEPT
                     !.currentPage = IF @ - 1 > 1 THEN @ - 1 ELSE 1,
                     !.event = "previous", !.from = dataTable.currentPage]
  /\ UNCHANGED <<csvVars, popVars, localStorage, stockCard>>

\* the Next button: rendered when totalPages > 1, disabled on the last page
NextPage ==
  /\ TableShown(dataTable)
  /\ TotalPages(dataTable) > 1
  /\ dataTable.currentPage # TotalPages(dataTable)
  /\ dataTable' = [dataTable EXCEPT
                     !.currentPage = Min2(TotalPages(dataTable), @ + 1),
                     !.event = "next", !.from = dataTable.currentPage]
  /\ UNCHANGED <<csvVars, popVars, localStorage, stockCard>>

(* ------------------------------------------------------------------ *)
(* lib/thread-persistence and window.localStorage                      *)
(* ------------------------------------------------------------------ *)
STORAGE_KEY_PREFIX ==
  <<"t","a","m","b","o","-","c","o","m","p","a","r","e","-","t","h","r","e","a","d","-">>

\* String.prototype.startsWith
StartsWith(str, prefix) ==
  Len(str) >= Len(prefix) /\ SubSeq(str, 1, Len(prefix)) = prefix

\* localStorage is a function from the keys that have an item to the items
NoItems == [key \in {} |-> <<>>]

\* localStorage.getItem(key): the item, or null
GetItem(ls, key) == IF key \in DOMAIN ls THEN Str(ls[key]) ELSE Null

\* localStorage.setItem(key, value)
SetItem(ls, key, value) ==
  [k \in DOMAIN ls \cup {key} |-> IF k = key THEN value ELSE ls[k]]

\* localStorage.removeItem(key)
RemoveItem(ls, key) == [k \in DOMAIN ls \ {key} |-> ls[k]]

\* `${STORAGE_KEY_PREFIX}${panelKey}`
ThreadKey(panelKey) == STORAGE_KEY_PREFIX \o panelKey

\* getPersistedThreadId(panelKey)
GetPersistedThreadId(ls, panelKey) ==
  IF HasWindow THEN GetItem(ls, ThreadKey(panelKey)) ELSE Null

\* a persistThreadId that files every panel under one key
PersistThreadId_SharedKey(panelKey, threadId) ==
  /\ localStorage' = SetItem(localStorage, ThreadKey(<<>>), threadId)
  /\ UNCHANGED <<csvVars, popVars, dataTable, stockCard>>

\* persistThreadId(panelKey, threadId)
PersistThreadId(panelKey, threadId) ==
  /\ localStorage' = IF HasWindow
                       THEN SetItem(localStorage, ThreadKey(panelKey), threadId)
                       ELSE localStorage
  /\ UNCHANGED <<csvVars, popVars, dataTable, stockCard>>

\* clearPersistedThreadId(panelKey)
ClearPersistedThreadId(panelKey) ==
  /\ localStorage' = IF HasWindow
                       THEN RemoveItem(localStorage, ThreadKey(panelKey))
                       ELSE localStorage
  /\ UNCHANGED <<csvVars, popVars, dataTable, stockCard>>

\* clearAllPersistedThreads()
ClearAllPersistedThreads ==
  /\ localStorage' =
       IF HasWindow
         THEN [k \in {key \in DOMAIN localStorage : ~StartsWith(key, STORAGE_KEY_PREFIX)}
                 |-> localStorage[k]]
         ELSE localStorage
  /\ UNCHANGED <<csvVars, popVars, dataTable, stockCard>>

\* the page's dismissHint(label): localStorage.setItem(`hint-dismissed-${label}`, "true")
HintKey(label) == <<"h","i","n","t","-","d","i","s","m","i","s","s","e","d","-">> \o label

DismissHint(label) ==
  /\ localStorage' = SetItem(localStorage, HintKey(label), <<"t","r","u","e">>)
  /\ UNCHANGED <<csvVars, popVars, dataTable, stockCard>>

(* ------------------------------------------------------------------ *)
(* components/tambo/stock-card                                         *)
(* ------------------------------------------------------------------ *)
RISK_LEVELS == <<"low", "medium", "high">>

\* the initial value of the riskFilter component state; the code reads the
\* state as riskFilter ?? ["low", "medium", "high"], the same value
DefaultRiskFilter == <<"low", "medium", "high">>

\* a mounted StockCard; events counts the tambo-component-state-change events
\* it dispatched, and toggles, risk, seen and eventsSeen are history: the
\* number of toggleRisk calls, the argument of the latest one, and the filter
\* and the event count it found
StockMounted ==
  [riskFilter |-> DefaultRiskFilter, events |-> 0, toggles |-> 0,
   risk |-> "none", seen |-> <<>>, eventsSeen |-> 0]

\* a toggleRisk that lets the last level go
ToggleRisk_AllowsEmpty(risk) ==
  /\ stockCard.toggles < MaxToggles
  /\ LET current == stockCard.riskFilter
         newFilter == IF InSeq(current, risk)
                        THEN SelectSeq(current, LAMBDA r : r # risk)
                        ELSE Append(current, risk)
     IN stockCard' = [riskFilter |-> newFilter, events |-> stockCard.events + 1,
                      toggles |-> stockCard.toggles + 1, risk |-> risk,
                      seen |-> current, eventsSeen |-> stockCard.events]
  /\ UNCHANGED <<csvVars, popVars, dataTable, localStorage>>

\* toggleRisk(risk), the click on the button of a risk level
ToggleRisk(risk) ==
  /\ stockCard.toggles < MaxToggles
  /\ LET current == stockCard.riskFilter
         returnsEarly == InSeq(current, risk) /\ ~(Len(current) > 1)
         newFilter == IF InSeq(current, risk)
                        THEN SelectSeq(current, LAMBDA r : r # risk)
                        ELSE Append(current, risk)
     IN stockCard' =
          [riskFilter |-> IF returnsEarly THEN current ELSE newFilter,
           events |-> IF returnsEarly THEN stockCard.events ELSE stockCard.events + 1,
           toggles |-> stockCard.toggles + 1, risk |-> risk,
           seen |-> current, eventsSeen |-> stockCard.events]
  /\ UNCHANGED <<csvVars, popVars, dataTable, localStorage>>

\* the three components before any use
UiInit ==
  /\ dataTable = TableMounted(<<>>, <<>>)
  /\ localStorage = NoItems
  /\ stockCard = StockMounted

(* ------------------------------------------------------------------ *)
(* components/csv-upload and the page handlers                         *)
(* ------------------------------------------------------------------ *)
MaxFileSize == 10 * 1024 * 1024
CsvSuffix == <<".","c","s","v">>

NoteSet(d, k) == [kind |-> "set", data |-> d, seq |-> k]
\* seq of a clear note (history): the number of parses started before it
NoteClear == [kind |-> "clear", data |-> NullStore, seq |-> 0]
NoteNone == [kind |-> "none", data |-> NullStore, seq |-> 0]

\* handleFileSelect(files) with files[0] = f, and the parseCSV(f) it ends in;
\* a started parse remembers (history) which parses were in flight then.
\* The file input exists only while no file is shown as uploaded; the page's
\* CSV quick-start button clicks it even while a parse is in flight.
HandleFileSelect(f) ==
  /\ uploadedFile = NoName
  /\ IF ~EndsWith(f.name, CsvSuffix)
       THEN /\ error' = "Please upload a CSV file"
            /\ UNCHANGED <<isProcessing, pending, started, log>>
     ELSE IF f.size > MaxFileSize
       THEN /\ error' = "File size must be less than 10MB"
            /\ UNCHANGED <<isProcessing, pending, started, log>>
     ELSE /\ Cardinality(pending) < MaxPending
          /\ started < MaxUploads
          /\ error' = "none"
          /\ isProcessing' = TRUE
          /\ started' = started + 1
          /\ pending' = pending \cup {[seq |-> started + 1, file |-> f,
                                       inflight |-> {q.seq : q \in pending}]}
          /\ UNCHANGED log
  /\ UNCHANGED <<store, uploadedFile, csvUploaded, lastSet, last, popVars, uiVars>>

\* a complete callback without the test of results.data.length
ParseComplete_NoRowCheck(q) ==
  /\ q \in pending
  /\ pending' = pending \ {q}
  /\ isProcessing' = FALSE
  /\ IF q.file.errors > 0
       THEN /\ error' = "Parsing error"
            /\ UNCHANGED <<store, uploadedFile, csvUploaded, lastSet, log>>
     ELSE /\ uploadedFile' = q.file.name
          /\ store' = SetCSVData(store, Dataset(q.file.fields, q.file.data, q.file.name))
          /\ csvUploaded' = TRUE
          /\ lastSet' = NoteSet(Dataset(q.file.fields, q.file.data, q.file.name), q.seq)
          /\ log' = log \cup {q}
          /\ UNCHANGED error
  /\ UNCHANGED <<started, last, popVars, uiVars>>

\* Papa's complete callback for the parse q; onDataParsed is the page's
\* handleCsvUploaded: setCSVData(data); setCsvUploaded(true)
ParseComplete(q) ==
  /\ q \in pending
  /\ pending' = pending \ {q}
  /\ isProcessing' = FALSE
  /\ IF q.file.errors > 0
       THEN /\ error' = "Parsing error"
            /\ UNCHANGED <<store, uploadedFile, csvUploaded, lastSet, log>>
     ELSE IF Len(q.file.data) = 0
       THEN /\ error' = "CSV file is empty"
            /\ UNCHANGED <<store, uploadedFile, csvUploaded, lastSet, log>>
     ELSE /\ uploadedFile' = q.file.name
          /\ store' = SetCSVData(store, Dataset(q.file.fields, q.file.data, q.file.name))
          /\ csvUploaded' = TRUE
          /\ lastSet' = NoteSet(Dataset(q.file.fields, q.file.data, q.file.name), q.seq)
          /\ log' = log \cup {q}
          /\ UNCHANGED error
  /\ UNCHANGED <<started, last, popVars, uiVars>>

\* Papa's error callback for the parse q (the file could not be read)
ParseFailed(q) ==
  /\ q \in pending
  /\ pending' = pending \ {q}
  /\ isProcessing' = FALSE
  /\ error' = "Failed to parse CSV"
  /\ UNCHANGED <<store, uploadedFile, csvUploaded, started, log, lastSet, last, popVars, uiVars>>

\* the widget's remove button: handleClear, then the page's handleCsvCleared
HandleClear ==
  /\ uploadedFile # NoName
  /\ uploadedFile' = NoName
  /\ error' = "none"
  /\ store' = ClearCSVData(store)
  /\ csvUploaded' = FALSE
  /\ lastSet' = [NoteClear EXCEPT !.seq = started]
  /\ UNCHANGED <<isProcessing, pending, started, log, last, popVars, uiVars>>

\* the page's New Chat button: handleNewChat
HandleNewChat ==
  /\ store' = ClearCSVData(store)
  /\ csvUploaded' = FALSE
  /\ lastSet' = [NoteClear EXCEPT !.seq = started]
  /\ UNCHANGED <<uploadedFile, error, isProcessing, pending, started, log, last, popVars, uiVars>>

(* ------------------------------------------------------------------ *)
(* The page: uploads, clears and tool calls in any order               *)
(* ------------------------------------------------------------------ *)
\* the page and its upload widget before any upload
CsvInit ==
  /\ store = NoStore
  /\ uploadedFile = NoName
  /\ error = "none"
  /\ isProcessing = FALSE
  /\ pending = {}
  /\ started = 0
  /\ csvUploaded = FALSE
  /\ log = {}
  /\ lastSet = NoteNone
  /\ last = NoCall

Init ==
  /\ CsvInit
  /\ PopInit
  /\ UiInit

\* arguments the AI passes to the tools on the page
ToolQueries == {Params(hK, "desc", 1, hName, <<"a">>, "none", NoName)}

ToolInsights == {Params(NoName, "asc", 0, NoName, <<>>, "top_performers", NoName)}

Next ==
  \/ \E f \in Files : HandleFileSelect(f)
  \/ \E q \in pending : ParseComplete(q)
  \/ \E q \in pending : ParseFailed(q)
  \/ HandleClear
  \/ HandleNewChat
  \/ \E p \in ToolQueries : AnalyzeCSV(p)
  \/ \E p \in ToolInsights : GenerateDataInsights(p)
  \/ AnalyzeDataStructure
  \/ GenerateExplorationSuggestions

Spec == Init /\ [][Next]_vars

(* ------------------------------------------------------------------ *)
(* The query engine on every small dataset                             *)
(* ------------------------------------------------------------------ *)
\* the store right after setCSVData(d) on a fresh page
Loaded(d) ==
  /\ store = SetCSVData(NoStore, d)
  /\ lastSet = NoteSet(d, 0)
  /\ uploadedFile = NoName
  /\ error = "none"
  /\ isProcessing = FALSE
  /\ pending = {}
  /\ started = 0
  /\ csvUploaded = FALSE
  /\ log = {}
  /\ last = NoCall
  /\ PopInit
  /\ UiInit

SeqsUpTo(S, n) == UNION {[1..k -> S] : k \in 0..n}

KeyValues ==
  {Null, Num(0), Num(0 - 1), Num(10), Str(<<"1","a">>), Str(<<"A">>)}

OneColumnRows == {[c \in {hK} |-> v] : v \in KeyValues}

TwoColumnRows ==
  {[c \in {hName, hK} |-> IF c = hName THEN Str(<<"A","l">>) ELSE Num(10)],
   [c \in {hName, hK} |-> IF c = hName THEN Str(<<"b","o">>) ELSE Num(2)],
   [c \in {hName, hK} |-> IF c = hName THEN Null ELSE Str(<<"A">>)],
   [c \in {hName} |-> Str(<<"b","o">>)]}

QueryDatasets ==
  {Dataset(<<hK>>, r, nameA) : r \in SeqsUpTo(OneColumnRows, MaxRows)}
  \cup {Dataset(<<hName, hK>>, r, nameB) : r \in SeqsUpTo(TwoColumnRows, MaxRows)}

QueryFilters ==
  {<<NoName, <<>> >>, <<hK, <<"a">> >>, <<hK, <<"n","u","l","l">> >>,
   <<hK, <<"1","0">> >>, <<hZ, <<"a">> >>}

QuerySorts == {<<NoName, "asc">>, <<hK, "asc">>, <<hK, "desc">>, <<hZ, "asc">>}

QueryParams ==
  {Params(o[1], o[2], lim, f[1], f[2], "none", NoName) :
     o \in QuerySorts, lim \in {0, 1, MaxLimit}, f \in QueryFilters}

InitQuery == \E d \in QueryDatasets : Loaded(d)

\* one call per loaded dataset: each dataset meets each request once
NextQuery == last = NoCall /\ \E p \in QueryParams : AnalyzeCSV(p)

SpecQuery == InitQuery /\ [][NextQuery]_vars

(* ------------------------------------------------------------------ *)
(* The structure analyzer on every small column layout                 *)
(* ------------------------------------------------------------------ *)
PlainNames == <<<<"a">>, <<"b">>, <<"c">>, <<"d">>, <<"e">>, <<"f">>>>

DateLikeNames ==
  {hMonth, <<"U","p","d","a","t","e","d">>, <<"Y","E","A","R">>,
   <<"r","u","n","t","i","m","e">>}

\* a, b, c, ... with at most one column renamed to a date-like name
HeaderLists ==
  UNION {{SubSeq(PlainNames, 1, n)}
           \cup {[SubSeq(PlainNames, 1, n) EXCEPT ![i] = w] :
                   i \in 1..n, w \in DateLikeNames} : n \in 0..MaxCols}

SampleValues == {Num(1), Str(<<"x">>), Null}

RowsOver(h) ==
  LET names == Range(h)
      firstRows == [names -> SampleValues]
  IN {<<>>}
     \cup {<<r>> : r \in firstRows}
     \cup {<<r, [c \in names |-> Num(2)]>> : r \in firstRows}
     \cup {<<r, [c \in names |-> Str(<<"y">>)]>> : r \in firstRows}

ShapeDatasets == UNION {{Dataset(h, r, nameA) : r \in RowsOver(h)} : h \in HeaderLists}

InitShape == \E d \in ShapeDatasets : Loaded(d)

\* one call per loaded dataset
NextShape ==
  \/ (last = NoCall /\ AnalyzeDataStructure)
  \/ (last = NoCall /\ GenerateExplorationSuggestions)

SpecShape == InitShape /\ [][NextShape]_vars

(* ------------------------------------------------------------------ *)
(* The insight generator on every small dataset                        *)
(* ------------------------------------------------------------------ *)
InsightValues == {Null, Num(0), Num(0 - 50), Num(100), Num(150), Str(<<"x">>)}

InsightRows == {[c \in {hK} |-> v] : v \in InsightValues}

WideRow(nm, k, m, n) ==
  [c \in {hName, hK, hM, hN} |->
     IF c = hName THEN Str(nm) ELSE IF c = hK THEN Num(k) ELSE IF c = hM THEN Num(m) ELSE Num(n)]

WideRows == {WideRow(<<"A","l">>, 100, 100, 0), WideRow(<<"A","l">>, 100, 150, 150)}

Repeated(r, n) == [i \in 1..n |-> r]

InsightDatasets ==
  {Dataset(<<hK>>, r, nameA) : r \in SeqsUpTo(InsightRows, MaxRows)}
  \cup {Dataset(<<hName, hK>>, r, nameB) : r \in SeqsUpTo(TwoColumnRows, MaxRows)}
  \cup {Dataset(<<hName, hK, hM, hN>>, r, nameB) : r \in SeqsUpTo(WideRows, MaxRows)}
  \cup {Dataset(<<hName, hK, hM, hN>>, Repeated(r, MaxRows + 1), nameB) : r \in WideRows}

AnalysisTypes == {"summary", "trends", "recommendations", "correlation", ""}

InsightParams ==
  {Params(NoName, "asc", 0, NoName, <<>>, t, NoName) : t \in AnalysisTypes}
  \cup {Params(NoName, "asc", lim, NoName, <<>>, "top_performers", c) :
          lim \in {0, 1, MaxLimit}, c \in {NoName, hK, hZ}}

InitInsight == \E d \in InsightDatasets : Loaded(d)

\* one call per loaded dataset: each dataset meets each request once
NextInsight == last = NoCall /\ \E p \in InsightParams : GenerateDataInsights(p)

SpecInsight == InitInsight /\ [][NextInsight]_vars

(* ------------------------------------------------------------------ *)
(* The population service under every outcome of its fetches          *)
(* ------------------------------------------------------------------ *)
PopFilters == {0, 1}

\* the page before any upload
InitPop == Init

NextPop ==
  \/ \E fn \in PopFns, f \in PopFilters : PopCallCached(fn, f)
  \/ \E fn \in PopFns : PopCallFetch(fn)
  \/ \E fn \in PopFns, f \in PopFilters :
       \E o \in SettledPairs(fn) : PopSettle(fn, o[1], o[2], f)

SpecPop == InitPop /\ [][NextPop]_vars

(* ------------------------------------------------------------------ *)
(* The DataTable under every sequence of its handlers                  *)
(* ------------------------------------------------------------------ *)
TableHeaders == <<<<"n">>, <<"t">>>>

\* row i of the tables: a number in the first column, a word in the second
TableRow(i) == <<IntToString((i * 7) % 13), IF i % 3 = 0 THEN <<"b">> ELSE <<"a">>>>

TableSizes == {0, 1, rowsPerPage, rowsPerPage + 1, MaxTableRows}

SearchTerms == {<<>>, <<"a">>, <<"B">>, <<"1">>, <<"z","z">>}

InitTable ==
  /\ CsvInit
  /\ PopInit
  /\ localStorage = NoItems
  /\ stockCard = StockMounted
  /\ \E n \in TableSizes : dataTable = TableMounted(TableHeaders, [i \in 1..n |-> TableRow(i)])

NextTable ==
  \/ \E idx \in 0..1 : HandleSort(idx)
  \/ \E term \in SearchTerms : SearchChange(term)
  \/ PreviousPage
  \/ NextPage

SpecTable == InitTable /\ [][NextTable]_vars

(* ------------------------------------------------------------------ *)
(* The persisted thread ids under every sequence of calls              *)
(* ------------------------------------------------------------------ *)
\* the panel keys of the page, and the empty key
PanelKeys == {<<"g","e","n","e","r","a","t","i","v","e">>,
              <<"p","l","a","i","n","t","e","x","t">>, <<>>}

ThreadIds == {<<"t","1">>, <<"t","2">>, <<"t","3">>}

HintLabels == {<<"A">>}

\* a key of another script of the origin that stops short of the prefix
OtherKey == <<"t","a","m","b","o","-","c","o","m","p","a","r","e","-","t","h","r","e","a","d">>

InitThreads ==
  /\ CsvInit
  /\ PopInit
  /\ dataTable = TableMounted(<<>>, <<>>)
  /\ stockCard = StockMounted
  /\ localStorage \in {NoItems, SetItem(NoItems, OtherKey, <<"x">>)}

NextThreads ==
  \/ \E k \in PanelKeys, t \in ThreadIds : PersistThreadId(k, t)
  \/ \E k \in PanelKeys : ClearPersistedThreadId(k)
  \/ ClearAllPersistedThreads
  \/ \E l \in HintLabels : DismissHint(l)

SpecThreads == InitThreads /\ [][NextThreads]_vars

(* ------------------------------------------------------------------ *)
(* The StockCard under every sequence of toggles                       *)
(* ------------------------------------------------------------------ *)
InitStock == Init

NextStock == \E risk \in Range(RISK_LEVELS) : ToggleRisk(risk)

SpecStock == InitStock /\ [][NextStock]_vars

(* ------------------------------------------------------------------ *)
(* Properties                                                          *)
(* ------------------------------------------------------------------ *)
FileDataset(f) == Dataset(f.fields, f.data, f.name)

\* C1: getCSVData() returns exactly the dataset passed to the latest
\* setCSVData when no clearCSVData came after it, and null otherwise.
C1_SingleSlot ==
  GetCSVData(store) = (IF lastSet.kind = "set" THEN lastSet.data ELSE NullStore)

\* C1 witness: a second dataset replaced a different first one
C1_Witness ==
  /\ \E x, y \in log : x.seq < y.seq /\ x.file # y.file /\ lastSet.seq = y.seq
  /\ lastSet.kind = "set"
  /\ GetCSVData(store).kind = "data"

\* C2: a tool call made while the store is empty (nothing set yet, or a
\* clear was the latest store call) rejects and produces no result.
C2_EmptyStoreRejects ==
  (last.op # "none" /\ last.hist # "set") =>
     /\ last.status = "error"
     /\ last.rows = <<>> /\ last.summary = <<>> /\ last.headers = <<>>
     /\ last.dataType = "none" /\ last.title = "none" /\ last.suggestions = <<>>

\* C2 witness: an insight call right after a clear that followed an upload
C2_Witness ==
  /\ last.op = "generateDataInsights"
  /\ last.hist = "clear"
  /\ last.status = "error"
  /\ log # {}

IsQuery == last.op = "analyzeCSV" /\ last.data.kind = "data"

UnknownColumn(c) == c # NoName /\ ~InSeq(last.data.headers, c)

\* C3: analyzeCSV rejects whenever sortBy or filterColumn names a column
\* that is not among the stored headers.
C3_UnknownColumnRejected ==
  (IsQuery /\ (UnknownColumn(last.params.sortBy) \/ UnknownColumn(last.params.filterColumn)))
     => last.status = "error"

\* C4: when upload B is started while upload A is still being parsed and
\* both parses have delivered their dataset, the store holds B's dataset.
C4_LastLoadWins ==
  \A a, b \in log :
    ( /\ a.seq < b.seq
      /\ a.seq \in b.inflight
      /\ lastSet.kind = "set"
      /\ lastSet.seq \in {a.seq, b.seq} )
    => GetCSVData(store) = FileDataset(b.file)

FilterRequested == last.params.filterColumn # NoName /\ last.params.filterValue # <<>>

PassingRows ==
  {i \in 1..Len(last.data.rows) :
     FilterRequested => FilterPass(last.data.rows[i], last.params)}

\* C5: totalRows, and the "Total Rows" summary entry, is the number of stored
\* rows that pass the filter, whatever the limit and the sorting.
C5_TotalRowsAfterFilter ==
  (IsQuery /\ last.status = "ok") =>
     /\ last.totalRows = Cardinality(PassingRows)
     /\ last.summary[1] = [label |-> TotalRowsLabel,
                           value |-> IntToString(Cardinality(PassingRows))]

\* C5 witness: the filter dropped a row, the rows were sorted, and the limit
\* cut the result below totalRows
C5_Witness ==
  /\ IsQuery /\ last.status = "ok"
  /\ FilterRequested
  /\ InSeq(last.data.headers, last.params.sortBy)
  /\ Len(last.data.rows) = 3
  /\ last.totalRows = 2
  /\ Len(last.rows) = 1

\* C6: for a positive limit N the returned rows are the first
\* min(N, totalRows) rows of the filtered-and-sorted sequence, in order.
C6_LimitIsPrefix ==
  (IsQuery /\ last.status = "ok" /\ last.params.limit > 0) =>
     /\ last.rows = RowArrays(SubSeq(last.sorted, 1, Min2(last.params.limit, last.totalRows)),
                              last.data.headers, last.data.rows)
     /\ Len(last.rows) <= last.totalRows

\* C6 witness: a limit of 2 on three sorted rows that moved the first row
C6_Witness ==
  /\ IsQuery /\ last.status = "ok"
  /\ last.params.limit = 2
  /\ Len(last.sorted) = 3
  /\ last.sorted[1] # 1
  /\ Len(last.rows) = 2

\* the text of a cell, empty for a null or missing cell
ShownText(v) ==
  CASE v.t = "number" -> IntToString(v.n)
    [] v.t = "string" -> v.s
    [] OTHER -> <<>>

PlainQuery ==
  /\ IsQuery
  /\ ~FilterRequested
  /\ last.params.sortBy = NoName
  /\ last.params.limit = 0

RoundTrip ==
  /\ last.status = "ok"
  /\ last.totalRows = Len(last.data.rows)
  /\ Len(last.rows) = Len(last.data.rows)
  /\ \A i \in 1..Len(last.data.rows) :
       /\ Len(last.rows[i]) = Len(last.data.headers)
       /\ \A j \in 1..Len(last.data.headers) :
            last.rows[i][j] = ShownText(Cell(last.data.rows[i], last.data.headers[j]))

C8_AbsentValueNoRows ==
  ( /\ IsQuery /\ last.status = "ok"
    /\ FilterRequested
    /\ \A i \in 1..Len(last.data.rows) :
         ~Includes(ToLowerCase(ShownText(Cell(last.data.rows[i], last.params.filterColumn))),
                   ToLowerCase(last.params.filterValue)) )
  => (last.rows = <<>> /\ last.totalRows = 0)

SortApplied ==
  /\ IsQuery /\ last.status = "ok"
  /\ InSeq(last.data.headers, last.params.sortBy)

\* C9: the sort step is stable (rows that compare equal keep their relative
\* order) and idempotent (sorting its output again changes nothing).
C9_SortStableIdempotent ==
  SortApplied =>
    LET cmp == CompareTable(last.data.rows, last.params)
    IN /\ \A i, j \in 1..Len(last.sorted) :
            (i < j /\ cmp[last.sorted[i], last.sorted[j]] = 0)
               => last.sorted[i] < last.sorted[j]
       /\ SortOutcomes(last.sorted, cmp) = {last.sorted}

DateWords == {<<"d","a","t","e">>, <<"t","i","m","e">>, <<"m","o","n","t","h">>,
              <<"y","e","a","r">>}

NamesADate ==
  \E i \in 1..Len(last.data.headers) : \E w \in DateWords :
    Includes(ToLowerCase(last.data.headers[i]), w)

FirstRowCount(tag) ==
  Cardinality({i \in 1..Len(last.data.headers) :
                 Cell(last.data.rows[1], last.data.headers[i]).t = tag})

Classified(dt, comp, conf) ==
  last.dataType = dt /\ last.component = comp /\ last.confidence = conf

DataTypes == {"timeseries", "ranking", "comparison", "categorical", "unknown"}

\* C11: with a dataset loaded, analyzeDataStructure rejects exactly when the
\* dataset has zero headers or zero rows, and returns a classification in
\* every other case.
C11_RejectsEmptyDataset ==
  (last.op = "analyzeDataStructure" /\ last.hist = "set") =>
     IF Len(lastSet.data.headers) = 0 \/ Len(lastSet.data.rows) = 0
       THEN last.status = "error" /\ last.dataType = "none" /\ last.component = "none"
       ELSE last.status = "ok" /\ last.dataType \in DataTypes

\* C11 witness: headers but no rows, and the call was rejected
C11_Witness ==
  /\ last.op = "analyzeDataStructure" /\ last.hist = "set"
  /\ Len(lastSet.data.headers) > 0
  /\ Len(lastSet.data.rows) = 0
  /\ last.status = "error"

\* the types of the values of row r, column by column
RowTypes(headers, r) == [j \in 1..Len(headers) |-> Cell(r, headers[j]).t]

\* r with every number and string replaced by another of the same type
Retyped(r) ==
  [c \in DOMAIN r |->
     IF IsNumber(r[c]) THEN Num(r[c].n + 7)
     ELSE IF IsString(r[c]) THEN Str(r[c].s \o <<"q">>)
     ELSE r[c]]

\* datasets with the headers of d and a first row of the same types as d's
SameShape(d) ==
  LET names == Range(d.headers)
      firsts == {d.rows[1], Retyped(d.rows[1])}
      rests == {<<>>, <<[c \in names |-> Num(2)]>>, <<[c \in names |-> Str(<<"y">>)]>>,
                <<[c \in names |-> Null], [c \in names |-> Num(3)]>>}
  IN {Dataset(d.headers, <<f>> \o r, nameB) : f \in firsts, r \in rests}

\* C12: the classification is a function of the header names and the types of
\* the first row's values: every dataset with the same headers and first-row
\* types, whatever its other rows, and a repeated call on the unchanged store,
\* get the dataType, suggestedComponent and confidence of the call made.
C12_ClassificationPure ==
  (last.op = "analyzeDataStructure" /\ last.status = "ok") =>
     /\ \A e \in SameShape(last.data) :
          LET o == AnalyzeDataStructureOutcome(SetCSVData(NoStore, e))
          IN /\ RowTypes(e.headers, e.rows[1]) = RowTypes(last.data.headers, last.data.rows[1])
             /\ o.status = "ok"
             /\ o.dataType = last.dataType
             /\ o.component = last.component
             /\ o.confidence = last.confidence
     /\ Called(AnalyzeDataStructureOutcome(store)) = last

\* C12 witness: a ranking layout whose later row holds a string in a numeric column
C12_Witness ==
  /\ last.op = "analyzeDataStructure" /\ last.status = "ok"
  /\ last.dataType = "ranking"
  /\ Len(last.data.rows) = 2
  /\ \E j \in 1..Len(last.data.headers) :
       /\ IsNumber(Cell(last.data.rows[1], last.data.headers[j]))
       /\ IsString(Cell(last.data.rows[2], last.data.headers[j]))

IsInsight(t) ==
  /\ last.op = "generateDataInsights"
  /\ last.params.analysisType = t
  /\ last.hist = "set"
  /\ Len(lastSet.data.headers) > 0
  /\ Len(lastSet.data.rows) > 0

\* a >= b as numbers, for two displayed values
NumericGE(a, b) == IsNumeral(a) /\ IsNumeral(b) /\ NumeralValue(a) >= NumeralValue(b)

\* C13: for a positive limit N, 'top_performers' returns at most N entries,
\* ranked 1, 2, 3, ... in order, and the value of each entry is numerically
\* greater than or equal to the value of the next one, also when the column
\* mixes numbers with strings or empty cells.
C13_TopPerformersDescending ==
  (IsInsight("top_performers") /\ last.status = "ok" /\ last.params.limit > 0) =>
     /\ Len(last.topPerformers) <= last.params.limit
     /\ \A i \in 1..Len(last.topPerformers) : last.topPerformers[i].rank = i
     /\ \A i \in 1..(Len(last.topPerformers) - 1) :
          NumericGE(last.topPerformers[i].value, last.topPerformers[i + 1].value)

FirstRowNumeric ==
  {j \in 1..Len(last.data.headers) : IsNumber(Cell(last.data.rows[1], last.data.headers[j]))}

\* the column 'top_performers' has to rank by is not among the headers
TargetMissing ==
  \/ (last.params.column # NoName /\ ~InSeq(last.data.headers, last.params.column))
  \/ (last.params.column = NoName /\ FirstRowNumeric = {})

\* C14: 'top_performers' rejects whenever the target column is not among the
\* headers: when the caller names a missing column, and when no column is
\* named and no column is numeric by the first row.
C14_MissingTargetRejected ==
  (IsInsight("top_performers") /\ TargetMissing) =>
     (last.status = "error" /\ last.topPerformers = <<>> /\ last.metrics = <<>>)

\* C14 witness: no column named, the only column starts with a string
C14_Witness ==
  /\ IsInsight("top_performers")
  /\ last.params.column = NoName
  /\ Len(last.data.rows) >= 2
  /\ IsString(Cell(last.data.rows[1], hK))
  /\ IsNumber(Cell(last.data.rows[2], hK))
  /\ last.status = "error"

TrendMetricsOf(c) ==
  {i \in 1..Len(last.metrics) : last.metrics[i].label = c \o <<" Trend">>}

\* the percent change from f to l shown with one decimal, signed "+" above zero
PercentShown(f, l) ==
  LET num == IF f > 0 THEN (l - f) * 100 ELSE (f - l) * 100
      den == IF f > 0 THEN f ELSE 0 - f
  IN (IF num > 0 THEN <<"+">> ELSE <<>>) \o ToFixed(num, den, 1) \o <<"%">>

PercentType(f, l) ==
  LET num == IF f > 0 THEN (l - f) ELSE (f - l)
  IN IF num > 0 THEN "positive" ELSE IF num < 0 THEN "warning" ELSE "neutral"

\* C15: in 'trends', every column that is numeric by the first row and has at
\* least two numeric values yields one metric whose value is the percent
\* change from its first to its last numeric value, typed positive above zero,
\* warning below zero and neutral at zero; [100,150] gives "+50.0%", positive.
C15_TrendIsPercentChange ==
  (IsInsight("trends") /\ last.status = "ok") =>
     \A j \in FirstRowNumeric :
       LET c == last.data.headers[j]
           values == NumericValues(last.data.rows, c)
           f == values[1]
           l == values[Len(values)]
       IN Len(values) >= 2 =>
            /\ Cardinality(TrendMetricsOf(c)) = 1
            /\ \A i \in TrendMetricsOf(c) :
                 /\ f # 0
                 /\ last.metrics[i].value = PercentShown(f, l)
                 /\ last.metrics[i].type = PercentType(f, l)
                 /\ (f = 100 /\ l = 150) =>
                      (last.metrics[i].value = <<"+", "5", "0", ".", "0", "%">>
                       /\ last.metrics[i].type = "positive")

KnownTypes == {"summary", "top_performers", "trends", "recommendations"}

\* C16: for an analysisType outside summary / top_performers / trends /
\* recommendations the call returns exactly what 'summary' returns on the same
\* dataset, and is not rejected for the unknown type.
C16_UnknownTypeIsSummary ==
  (last.op = "generateDataInsights" /\ last.params.analysisType \notin KnownTypes) =>
     /\ last \in {Called([o EXCEPT !.params = last.params]) :
                   o \in GenerateDataInsightsOutcomes(
                           store, [last.params EXCEPT !.analysisType = "summary"])}
     /\ (last.hist = "set" /\ Len(lastSet.data.headers) > 0 /\ Len(lastSet.data.rows) > 0)
          => (last.status = "ok" /\ last.title = "Data Summary")

\* C16 witness: an unknown type answered with the summary of a numeric column
C16_Witness ==
  /\ IsInsight("correlation")
  /\ last.status = "ok"
  /\ Len(last.metrics) = 4
  /\ last.metrics[4].value = <<"1", "2", "5", ".", "0", "0">>

FirstRowText ==
  {j \in 1..Len(last.data.headers) : IsString(Cell(last.data.rows[1], last.data.headers[j]))}

Least(S) == CHOOSE x \in S : \A y \in S : x <= y

\* the share of distinct values in the first text column is below 30% or above 70%
ConcentrationFires ==
  /\ FirstRowText # {}
  /\ LET c == last.data.headers[Least(FirstRowText)]
         n == Len(last.data.rows)
         distinct == Cardinality({Cell(last.data.rows[i], c) : i \in 1..n})
     IN distinct * 10 < 3 * n \/ distinct * 10 > 7 * n

\* column j has a number above 1.5 times, or below 0.5 times, its average
OutlierFires(j) ==
  LET values == NumericValues(last.data.rows, last.data.headers[j])
      n == Len(values)
      sum == SeqSum(values)
  IN \E i \in 1..n : 2 * n * values[i] > 3 * sum \/ 2 * n * values[i] < sum

FirstTwoNumeric == {j \in FirstRowNumeric : Cardinality({i \in FirstRowNumeric : i < j}) < 2}

FillersEmitted ==
  \A g \in Range(GenericRecommendations) : g \in Range(last.recommendations)

\* C17: 'recommendations' is never rejected for lack of signal and never
\* returns an empty list: the three generic texts are emitted exactly when
\* neither the concentration check on the first text column nor an outlier
\* check on the first two numeric columns fires.
C17_FillersIffNoSignal ==
  IsInsight("recommendations") =>
     /\ last.status = "ok"
     /\ last.recommendations # <<>>
     /\ FillersEmitted <=> ~(ConcentrationFires \/ \E j \in FirstTwoNumeric : OutlierFires(j))
     /\ FillersEmitted => last.recommendations = GenericRecommendations

\* C17 witness: generic texts although the third numeric column has outliers
C17_Witness ==
  /\ IsInsight("recommendations")
  /\ Cardinality(FirstRowNumeric) = 3
  /\ \E j \in FirstRowNumeric \ FirstTwoNumeric : OutlierFires(j)
  /\ ConcentrationFires = FALSE
  /\ last.recommendations = GenericRecommendations

\* the suggestions keep the relative order of the rule list `order`
InRuleOrder(order) ==
  \A i, j \in 1..Len(last.suggestions) :
    i < j => \E a, b \in 1..Len(order) :
               a < b /\ order[a] = last.suggestions[i].rule /\ order[b] = last.suggestions[j].rule

IsSuggestions == last.op = "generateExplorationSuggestions" /\ last.status = "ok"

HasRule(r) == \E i \in 1..Len(last.suggestions) : last.suggestions[i].rule = r

\* C18 as stated: the suggestions always appear in the order compare by
\* category, find outliers, trend over time, distribution analysis, best
\* performers, breakdown by A vs B.
C18_OrderBestBeforeBreakdown ==
  (IsSuggestions /\ ~HasRule("Explore Data")) =>
     InRuleOrder(<<"Compare by", "Identify Outliers", "Analyze Trends",
                   "Distribution Analysis", "Best Performers", "Breakdown">>)

\* C18 as amended: the suggestions always appear in the order compare by
\* category, find outliers, trend over time, distribution analysis, breakdown
\* by A vs B, best performers.
C18_OrderBreakdownBeforeBest ==
  (IsSuggestions /\ ~HasRule("Explore Data")) =>
     InRuleOrder(<<"Compare by", "Identify Outliers", "Analyze Trends",
                   "Distribution Analysis", "Breakdown", "Best Performers">>)

\* C18 witness: all six rules fired
C18_Witness ==
  /\ IsSuggestions
  /\ Len(last.suggestions) = 6
  /\ HasRule("Breakdown") /\ HasRule("Best Performers") /\ HasRule("Analyze Trends")

\* the growth rate of the row comes from an entry of the growth response
GrowthIsLive(row) ==
  \E i \in 1..Len(popLast.growth.entries) :
    LET e == popLast.growth.entries[i]
    IN /\ IsNumber(e.value)
       /\ e.value.n = row.growthRate
       /\ (popLast.fn = "global" => DigitsValue(e.date) = row.year)
       /\ (popLast.fn = "country" => e.countryiso3code = row.countryCode)

\* the population of the row comes from an entry of the population response
PopulationIsLive(row) ==
  \E i \in 1..Len(popLast.pop.entries) :
    LET e == popLast.pop.entries[i]
    IN /\ IsNumber(e.value)
       /\ e.value.n = row.population
       /\ DigitsValue(e.date) = row.year
       /\ (popLast.fn = "country" => e.countryiso3code = row.countryCode)

\* C19: when one of the two parallel fetches of fetchGlobalData or
\* fetchCountryData is rejected (network error, timeout, non-OK status), the
\* caller gets the static fallback dataset in full; and a returned dataset
\* that is not the fallback holds, in every row, a live population and a live
\* growth rate, never a default standing in for one of them.
C19_FallbackOrAllLive ==
  (popLast.fn # "none" /\ popLast.fetched) =>
     /\ (Rejects(popLast.pop) \/ Rejects(popLast.growth))
          => popLast.data = Fallback(popLast.fn)
     /\ popLast.data # Fallback(popLast.fn)
          => \A i \in 1..Len(popLast.data) :
               PopulationIsLive(popLast.data[i]) /\ GrowthIsLive(popLast.data[i])

\* C20: getGlobalPopulationTrend and getCountryPopulations never reject:
\* whatever the fetches end in (network error, timeout, non-OK status, empty
\* or malformed body), the call resolves with a dataset.
C20_NeverRejects ==
  popLast.fn # "none" =>
     /\ popLast.status = "resolved"
     /\ popLast.data # <<>>
     /\ popLast.result = ApplyFilter(popLast.fn, popLast.filter, popLast.data)

\* C20 witness: a growth body whose entry holds a string made the try block
\* throw, and the call resolved with the fallback data
C20_Witness ==
  /\ popLast.fetched
  /\ popLast.pop.kind = "entries"
  /\ popLast.growth.kind = "entries"
  /\ \E i \in 1..Len(popLast.growth.entries) : IsString(popLast.growth.entries[i].value)
  /\ popLast.status = "resolved"
  /\ popLast.data = Fallback(popLast.fn)

\* the file fails a check of the upload widget
WrongType(f) == ~EndsWith(f.name, CsvSuffix)
Oversize(f) == f.size > MaxFileSize
BadParse(f) == f.errors > 0 \/ f.fields = <<>> \/ f.data = <<>>

ErrorMessages ==
  {"Please upload a CSV file", "File size must be less than 10MB", "Parsing error",
   "CSV file is empty", "Failed to parse CSV"}

\* C22: a selected file whose name does not end in ".csv" or whose size is
\* above 10 MB is rejected by handleFileSelect, and a file whose parse reports
\* errors, no headers or zero rows is rejected by the complete callback: the
\* widget shows an error message, onDataParsed / setCSVData is not called and
\* the stored dataset stays exactly as it was.
C22_InvalidFileRejected ==
  [][/\ \A f \in Files :
          (HandleFileSelect(f) /\ (WrongType(f) \/ Oversize(f)))
             => /\ error' \in ErrorMessages
                /\ pending' = pending
                /\ store' = store /\ lastSet' = lastSet /\ csvUploaded' = csvUploaded
     /\ \A q \in pending :
          (ParseComplete(q) /\ BadParse(q.file))
             => /\ error' \in ErrorMessages
                /\ log' = log
                /\ store' = store /\ lastSet' = lastSet /\ csvUploaded' = csvUploaded]_vars

\* C22 witness: a parse that reported zero rows was rejected while the store
\* held the dataset of an earlier file, and the dataset is still there
C22_Witness ==
  /\ error = "CSV file is empty"
  /\ store.kind = "data"
  /\ store = lastSet.data
  /\ \A q \in log : ~BadParse(q.file) /\ ~WrongType(q.file) /\ ~Oversize(q.file)

\* the step is the return of a call of fn: a waiting call settles, or a call
\* is answered from the cache
PopReturns(fn) ==
  /\ popLast'.fn = fn
  /\ \/ popInFlight'[fn] < popInFlight[fn]
     \/ (popStarted' > popStarted /\ popInFlight' = popInFlight)

\* a call of fn has fallen back: the catch block has put the static data in
\* the cache
FellBack(fn) == popCache[fn] = Cached(Fallback(fn))

\* the cache of fn holds a dataset built from API responses
HoldsLive(fn) == popCache[fn].kind = "data" /\ popCache[fn].rows # Fallback(fn)

\* C21: once a call of fetchGlobalData (fetchCountryData) has fallen back to
\* the static data, every call of that function that returns later returns
\* the static data, and no new fetch is issued, also while other calls of the
\* function are in flight.
C21_FallbackIsPermanent ==
  [][\A fn \in PopFns :
       FellBack(fn) =>
         /\ popInFlight'[fn] <= popInFlight[fn]
         /\ (PopReturns(fn) => popLast'.data = Fallback(fn))]_vars

\* C27: once the cache of fetchGlobalData (fetchCountryData) holds live API
\* data, it is never overwritten by the static fallback data, and every call
\* that returns after that point returns live data, also while other calls
\* of the function are in flight.
C27_LiveCacheKept ==
  [][\A fn \in PopFns :
       HoldsLive(fn) =>
         /\ popCache'[fn].rows # Fallback(fn)
         /\ (PopReturns(fn) => popLast'.data # Fallback(fn))]_vars

\* rows lo..hi of q, none when lo > hi or lo is past the end
RowsFromTo(q, lo, hi) ==
  IF lo > Len(q) THEN <<>>
  ELSE [i \in 1..(Min2(hi, Len(q)) - lo + 1) |-> q[lo + i - 1]]

\* C23: with fixed props, after any sequence of Next, Previous, search-term
\* changes and header clicks, the current page of the DataTable lies in
\* 1..max(1, totalPages), the rows shown are rows (page-1)*10+1 .. page*10 of
\* the filtered and sorted rows, at most 10, and a search-term change leaves
\* the table on page 1.
C23_PageInRange ==
  LET pages == TotalPages(dataTable)
      page == dataTable.currentPage
  IN /\ page >= 1
     /\ page <= (IF pages > 1 THEN pages ELSE 1)
     /\ PaginatedRows(dataTable)
          = RowsFromTo(SortedRows(dataTable), (page - 1) * 10 + 1, page * 10)
     /\ Len(PaginatedRows(dataTable)) <= 10
     /\ (dataTable.event = "search" => page = 1)

\* C23 witness: a search typed on a later page of a table of several pages
\* cut the rows down to one page, and the table shows page 1 of them
C23_Witness ==
  /\ dataTable.event = "search"
  /\ dataTable.from > 1
  /\ dataTable.currentPage = 1
  /\ TotalPages(dataTable) = 1
  /\ Len(dataTable.rows) > 2 * rowsPerPage
  /\ dataTable.sortColumnIdx # NoSortColumn

C25_RiskFilterNonEmpty ==
  LET f == stockCard.riskFilter
  IN /\ Len(f) >= 1
     /\ \A i \in 1..Len(f) : InSeq(RISK_LEVELS, f[i])
     /\ \A i, j \in 1..Len(f) : i # j => f[i] # f[j]
     /\ (stockCard.risk # "none" /\ stockCard.seen = <<stockCard.risk>>)
          => (f = stockCard.seen /\ stockCard.events = stockCard.eventsSeen)

\* C25 witness: the latest toggle was of the only level left, after toggles
\* that dispatched events
C25_Witness ==
  /\ stockCard.risk # "none"
  /\ stockCard.seen = <<stockCard.risk>>
  /\ stockCard.riskFilter = <<stockCard.risk>>
  /\ stockCard.events >= 2

\* C26: after analyzeCSV sorts by a column ascending (descending), any two
\* returned rows whose cells in that column are both numbers appear in
\* non-decreasing (non-increasing) numeric order, whatever the other rows
\* hold in that column.
C26_NumbersInOrder ==
  SortApplied =>
    LET shown == LimitStep(last.sorted, last.params)
        value(i) == Cell(last.data.rows[shown[i]], last.params.sortBy)
    IN \A i, j \in 1..Len(shown) :
         (i < j /\ IsNumber(value(i)) /\ IsNumber(value(j)))
            => IF last.params.sortOrder = "desc"
                 THEN value(i).n >= value(j).n
                 ELSE value(i).n <= value(j).n

\* C28: when New Chat or the widget's clear runs while a CSV parse is in
\* flight, the completion of that parse does not put its dataset in the
\* store: the store stays empty until a parse started after the clear
\* delivers; and csvUploaded is true exactly when the store holds a dataset.
C28_ClearedStoreStaysEmpty ==
  [][/\ \A q \in pending :
          (ParseComplete(q) /\ lastSet.kind = "clear" /\ q.seq <= lastSet.seq)
             => store'.kind # "data"
     /\ csvUploaded' = (store'.kind = "data")]_vars

\* C29: in 'trends', the metric of a column is typed positive when the
\* column's last numeric value is greater than its first, warning when it is
\* smaller and neutral when the two are equal, for every first value, zero
\* and negative numbers included.
C29_TrendSignFollowsValues ==
  (IsInsight("trends") /\ last.status = "ok") =>
     \A j \in FirstRowNumeric :
       LET c == last.data.headers[j]
           values == NumericValues(last.data.rows, c)
           f == values[1]
           l == values[Len(values)]
       IN Len(values) >= 2 =>
            \A i \in TrendMetricsOf(c) :
              last.metrics[i].type = (IF l > f THEN "positive"
                                      ELSE IF l < f THEN "warning" ELSE "neutral")

\* C30: the "Avg <column>" summary entries of analyzeCSV are the same for
\* every request on the same stored dataset: they are the entries the request
\* without filter, sort and limit gets, one for each of the first three
\* columns that are numeric in the first stored row, averaged over the
\* numeric cells of all stored rows.
C30_AveragesIgnoreRequest ==
  (IsQuery /\ last.status = "ok") =>
     /\ \A o \in AnalyzeCSVOutcomes(store, NoParams) :
          Tail(o.summary) = Tail(last.summary)
     /\ \A i \in 2..Len(last.summary) :
          \E j \in 1..Len(last.data.headers) :
            LET c == last.data.headers[j]
                values == NumericValues(last.data.rows, c)
            IN /\ last.summary[i].label = AvgPrefix \o c
               /\ IsNumber(Cell(last.data.rows[1], c))
               /\ last.summary[i].value = ToFixed(SeqSum(values), Len(values), 2)

\* C30 witness: the request filtered out a row that holds a number and cut
\* the rest with a limit, and the summary still carries the average over all
\* stored rows
C30_Witness ==
  /\ IsQuery /\ last.status = "ok"
  /\ FilterRequested
  /\ last.params.limit = 1
  /\ Len(last.summary) = 2
  /\ Len(last.data.rows) = 3
  /\ last.totalRows = 1
  /\ \E i \in 1..3 :
       /\ ~FilterPass(last.data.rows[i], last.params)
       /\ IsNumber(Cell(last.data.rows[i], hK))
       /\ Cell(last.data.rows[i], hK).n # Cell(last.data.rows[1], hK).n

====
